---------------------------- MODULE Spec2Model ----------------------------
(***************************************************************************)
(* Model of github.com/kendfss/iters, package slices: the sorting and      *)
(* searching entry points of sort.go and the Key adapter of keys.go.       *)
(*                                                                         *)
(* A slice is a sequence; the Go code indexes from 0, so At(s, i) reads    *)
(* s[i] of the Go code.  A caller-supplied less is a function value on     *)
(* pairs of elements, a key a function value on elements, a search         *)
(* predicate a function value on indices.                                  *)
(***************************************************************************)
EXTENDS Integers, Sequences, FiniteSets, TLC

(* ------------------------------ bounds -------------------------------- *)
MaxLen == 4          \* slices of every length 0..MaxLen are enumerated
MaxElem == 3         \* the ordered values are 0..MaxElem, and NaN
MaxN == 6            \* search(n, f) is enumerated for n in 0..MaxN
SeedLen == 3         \* long slices repeat a seed of length 1..SeedLen
LongExtra == 2       \* the longest slices have blockSize + LongExtra elements
NProcs == 2          \* the goroutines that call the methods of one Queue
QMaxElem == 1        \* the elements of a Queue are 0..QMaxElem
QInitLen == 2        \* NewQueue is called with 0..QInitLen elements
QMaxLen == 3         \* Push is called on queues shorter than QMaxLen
MaxCalls == 3        \* the calls made on one Queue
ChMaxElem == 1       \* the values sent on channels are 0..ChMaxElem
ChMaxLen == 3        \* the slices and sources sent have 0..ChMaxLen values
ChMaxCap == 1        \* the source of Tee has capacity 0..ChMaxCap
ChainArgs == 2       \* Chain is called with 0..ChainArgs channels
ChainLen == 2        \* the arguments of Chain deliver 0..ChainLen values in all
LockProcs == 3       \* the goroutines that call the methods of two Queues

(* --------------------------- element type ----------------------------- *)
\* The one value of the ordered type that is incomparable: a float64 NaN.
NaN == -1

Ord == 0..MaxElem
Elem == Ord \cup {NaN}

\* The comparison operators of Go on an ordered type; every comparison with
\* a NaN operand is false, except != which is true.
OLt(a, b) == a # NaN /\ b # NaN /\ a < b
OGt(a, b) == a # NaN /\ b # NaN /\ a > b
OLe(a, b) == a # NaN /\ b # NaN /\ a <= b
OGe(a, b) == a # NaN /\ b # NaN /\ a >= b
OEq(a, b) == a # NaN /\ b # NaN /\ a = b
ONe(a, b) == ~OEq(a, b)

At(s, i) == s[i + 1]

\* How a call ends when it does not return: by the panic of the caller's
\* function, or by the run-time panic of an index out of range. A function
\* of the caller is a function value; it panics outside its domain.
Panic == -2
Fault == -3
IsCode(v) == v <= Panic
Put(s, i, v) == [s EXCEPT ![i + 1] = v]

(* ------------------------------ keys.go -------------------------------- *)
\* A plausible slip: <= for <.
KeyLtOrEq(k, left, right) == OLe(k[left], k[right])

KeyLt(k, left, right) == OLt(k[left], k[right])
KeyLe(k, left, right) == OLe(k[left], k[right])
KeyGt(k, left, right) == OGt(k[left], k[right])
\* A plausible slip: > for >=.
KeyGeStrict(k, left, right) == OGt(k[left], k[right])

KeyGe(k, left, right) == OGe(k[left], k[right])
KeyEq(k, left, right) == OEq(k[left], k[right])
KeyNe(k, left, right) == ONe(k[left], k[right])

\* A plausible slip: the elements themselves decide equality.
KeyCmpOnElems(k, left, right) ==
    IF OEq(left, right) THEN 0
    ELSE IF OLt(k[left], k[right]) THEN -1
    ELSE 1

KeyCmp(k, left, right) ==
    IF OEq(k[left], k[right]) THEN 0
    ELSE IF OLt(k[left], k[right]) THEN -1
    ELSE 1

\* k.Lt and k.Cmp as the function values handed to SortFunc and
\* BinarySearchFunc.
LtOf(k) == [p \in (DOMAIN k) \X (DOMAIN k) |-> KeyLt(k, p[1], p[2])]
CmpOf(k) == [p \in (DOMAIN k) \X (DOMAIN k) |-> KeyCmp(k, p[1], p[2])]

(* ------------------------------ search --------------------------------- *)
RECURSIVE searchLoopShort(_, _, _)
\* A plausible slip: j = h - 1 in the true branch.
searchLoopShort(i, j, f) ==
    IF i < j
    THEN LET h == (i + j) \div 2
         IN  IF ~f[h] THEN searchLoopShort(h + 1, j, f)
                      ELSE searchLoopShort(i, h - 1, f)
    ELSE i

RECURSIVE searchLoop(_, _, _)
\* The loop of search: the state is (i, j); h is int(uint(i+j) >> 1).
searchLoop(i, j, f) ==
    IF i < j
    THEN LET h == (i + j) \div 2
         IN  IF h \notin DOMAIN f THEN Panic
             ELSE IF ~f[h] THEN searchLoop(h + 1, j, f)
             ELSE searchLoop(i, h, f)
    ELSE i

search(n, f) == searchLoop(0, n, f)

\* A plausible slip: found is not checked against the element at pos.
BinarySearchNoEq(target, space) ==
    LET pos == search(Len(space),
                      [i \in 0..(Len(space) - 1) |-> OGe(At(space, i), target)])
    IN  IF pos >= Len(space) THEN <<pos, FALSE>> ELSE <<pos, TRUE>>

BinarySearch(target, space) ==
    LET pos == search(Len(space),
                      [i \in 0..(Len(space) - 1) |-> OGe(At(space, i), target)])
    IN  IF pos >= Len(space) \/ ONe(At(space, pos), target)
        THEN <<pos, FALSE>>
        ELSE <<pos, TRUE>>

\* A plausible slip: the predicate is cmp > 0, which finds the end of a run.
BinarySearchFuncStrict(cmp, target, space) ==
    LET pos == search(Len(space),
                      [i \in 0..(Len(space) - 1) |->
                          cmp[<<At(space, i), target>>] > 0])
    IN  IF pos >= Len(space) \/ cmp[<<At(space, pos), target>>] # 0
        THEN <<pos, FALSE>>
        ELSE <<pos, TRUE>>

\* The predicate search is called with: cmp(space[i], target) >= 0, which
\* panics where cmp does.
searchPredicate(cmp, target, space) ==
    [i \in {k \in 0..(Len(space) - 1) : <<At(space, k), target>> \in DOMAIN cmp} |->
        cmp[<<At(space, i), target>>] >= 0]

\* The position and whether the target is there; the position is the code
\* of the panic when cmp panicked.
BinarySearchFunc(cmp, target, space) ==
    LET pos == search(Len(space), searchPredicate(cmp, target, space))
    IN  IF IsCode(pos) THEN <<pos, FALSE>>
        ELSE IF pos >= Len(space) THEN <<pos, FALSE>>
        ELSE IF <<At(space, pos), target>> \notin DOMAIN cmp THEN <<Panic, FALSE>>
        ELSE IF cmp[<<At(space, pos), target>>] # 0 THEN <<pos, FALSE>>
        ELSE <<pos, TRUE>>

BinarySearchKey(key, target, space) == BinarySearchFunc(CmpOf(key), target, space)

(* ----------------------------- IsSorted -------------------------------- *)
RECURSIVE IsSortedFuncLoop(_, _, _)
\* for i := len(x) - 1; i > 0; i-- { if less(x[i], x[i-1]) { return false } }
RECURSIVE IsSortedFuncLoopRecover(_, _, _)
\* A plausible slip: a deferred recover turns the panic of less into false.
IsSortedFuncLoopRecover(less, x, i) ==
    IF i > 0
    THEN IF <<At(x, i), At(x, i - 1)>> \notin DOMAIN less THEN 0
         ELSE IF less[<<At(x, i), At(x, i - 1)>>] THEN 0
         ELSE IsSortedFuncLoopRecover(less, x, i - 1)
    ELSE 1

\* 1 for true, 0 for false, or the code of the panic of less.
IsSortedFuncLoop(less, x, i) ==
    IF i > 0
    THEN IF <<At(x, i), At(x, i - 1)>> \notin DOMAIN less THEN Panic
         ELSE IF less[<<At(x, i), At(x, i - 1)>>] THEN 0
         ELSE IsSortedFuncLoop(less, x, i - 1)
    ELSE 1

IsSortedFunc(less, x) == IsSortedFuncLoop(less, x, Len(x) - 1)

RECURSIVE IsSortedLoopSkip(_, _)
\* A plausible slip: the loop stops at i > 1 and never looks at x[0].
IsSortedLoopSkip(x, i) ==
    IF i > 1
    THEN IF OLt(At(x, i), At(x, i - 1)) THEN FALSE
         ELSE IsSortedLoopSkip(x, i - 1)
    ELSE TRUE

RECURSIVE IsSortedLoop(_, _)
IsSortedLoop(x, i) ==
    IF i > 0
    THEN IF OLt(At(x, i), At(x, i - 1)) THEN FALSE
         ELSE IsSortedLoop(x, i - 1)
    ELSE TRUE

IsSorted(x) == IsSortedLoop(x, Len(x) - 1)

IsSortedKey(key, data) == IsSortedFunc(LtOf(key), data)

(* --------------------- helpers of pdqsort in sort.go ------------------- *)
\* sortedHint: the hint choosePivot gives pdqsort.
unknownHint == 0
increasingHint == 1
decreasingHint == 2

\* A uint64 is the set of the positions of its one bits.
WordBits == 64
Bit(n, i) == (n \div (2 ^ i)) % 2
ToWord(n) == {i \in 0..30 : Bit(n, i) = 1}
Shl(w, k) == {i + k : i \in {e \in w : e + k < WordBits}}
Shr(w, k) == {i - k : i \in {e \in w : e >= k}}
Xor(v, w) == (v \ w) \cup (w \ v)

RECURSIVE LowBits(_, _)
\* The value of the k low bits of w: uint(w) & (2^k - 1).
LowBits(w, k) ==
    IF k = 0 THEN 0
    ELSE LowBits(w, k - 1) + (IF (k - 1) \in w THEN 2 ^ (k - 1) ELSE 0)

\* (r *xorshift) Next(): the new value of *r, which is also what it returns.
xorshiftNext(r) ==
    LET r1 == Xor(r, Shl(r, 13))
        r2 == Xor(r1, Shr(r1, 17))
    IN  Xor(r2, Shl(r2, 5))

RECURSIVE bitsLen(_)
\* math/bits.Len: the number of bits needed to represent n.
bitsLen(n) == IF n = 0 THEN 0 ELSE 1 + bitsLen(n \div 2)

nextPowerOfTwo(length) == 2 ^ bitsLen(length)

(* ---------------- the adaptive sort (spec 4.3, 4.4, 4.5) --------------- *)
maxInsertion == 12       \* the small-range threshold
balanceFraction == 8     \* a side below length/8 makes a partition unbalanced
maxSwaps == 12           \* 4 * 3: every comparison of the ninther swapped

\* The array of a call that ended by a panic holds the elements as they were
\* at that moment, and behind them the code of the panic. Nothing is read
\* from or written to it any more.
Dead(d) == Len(d) > 0 /\ IsCode(d[Len(d)])
Kill(d, c) == IF Dead(d) THEN d ELSE Append(d, c)
\* What the caller finds in its slice after the call, and how the call ended.
Remains(d) == IF Dead(d) THEN SubSeq(d, 1, Len(d) - 1) ELSE d
Ending(d) == IF Dead(d) THEN d[Len(d)] ELSE 0
InRange(d, i) == i >= 0 /\ i < Len(d)

\* less(d[i], d[j]): 1 for true, 0 for false, or the code of the panic. The
\* caller's function panics on the pairs outside its domain.
LessAt(less, d, i, j) ==
    IF Dead(d) THEN d[Len(d)]
    ELSE IF ~InRange(d, i) \/ ~InRange(d, j) THEN Fault
    ELSE IF <<d[i + 1], d[j + 1]>> \notin DOMAIN less THEN Panic
    ELSE IF less[<<d[i + 1], d[j + 1]>>] THEN 1 ELSE 0

\* d[i], d[j] = d[j], d[i]
Swap(d, i, j) ==
    IF Dead(d) THEN d
    ELSE IF ~InRange(d, i) \/ ~InRange(d, j) THEN Kill(d, Fault)
    ELSE [d EXCEPT ![i + 1] = d[j + 1], ![j + 1] = d[i + 1]]

RECURSIVE insertPos(_, _, _, _, _)
\* Bisection for the place of d[i] in the sorted d[lo:hi]: the first index
\* whose element d[i] is less than, so d[i] goes behind the elements
\* equivalent to it.
insertPos(d, lo, hi, i, less) ==
    IF lo < hi
    THEN LET h == (lo + hi) \div 2
             c == LessAt(less, d, i, h)
         IN  IF IsCode(c) THEN c
             ELSE IF c = 0 THEN insertPos(d, h + 1, hi, i, less)
             ELSE insertPos(d, lo, h, i, less)
    ELSE lo

\* A plausible slip: d[i] is not saved before the shift overwrites it.
insertAtLost(d, pos, i) ==
    IF Dead(d) THEN d
    ELSE IF ~InRange(d, pos) \/ ~InRange(d, i) THEN Kill(d, Fault)
    ELSE
    [k \in 1..Len(d) |->
        IF k - 1 < pos \/ k - 1 > i THEN d[k]
        ELSE IF k - 1 = pos THEN At(d, IF i > pos THEN i - 1 ELSE i)
        ELSE d[k - 1]]

\* d[i] is taken out, d[pos:i] is shifted up by one, and it is put at pos.
insertAt(d, pos, i) ==
    IF Dead(d) THEN d
    ELSE IF ~InRange(d, pos) \/ ~InRange(d, i) THEN Kill(d, Fault)
    ELSE
    [k \in 1..Len(d) |->
        IF k - 1 < pos \/ k - 1 > i THEN d[k]
        ELSE IF k - 1 = pos THEN At(d, i)
        ELSE d[k - 1]]

RECURSIVE insertionSortFrom(_, _, _, _, _)
insertionSortFrom(d, a, b, i, less) ==
    IF i < b
    THEN LET pos == insertPos(d, a, i, i, less)
         IN  IF IsCode(pos) THEN Kill(d, pos)
             ELSE insertionSortFrom(insertAt(d, pos, i), a, b, i + 1, less)
    ELSE d

\* A plausible slip: the loop starts at a + 2, so d[a] and d[a+1] are taken
\* for sorted.
insertionSortSkip(d, a, b, less) == insertionSortFrom(d, a, b, a + 2, less)

\* Binary insertion sort of d[a:b].
insertionSort(d, a, b, less) == insertionSortFrom(d, a, b, a + 1, less)

RECURSIVE siftDown(_, _, _, _, _)
\* siftDown restores the heap property of d[first+lo : first+hi] at root lo.
siftDown(d, lo, hi, first, less) ==
    LET child0 == 2 * lo + 1
        \* 1 when the right child is the greater one
        right == IF child0 + 1 < hi
                 THEN LessAt(less, d, first + child0, first + child0 + 1)
                 ELSE 0
        child == child0 + right
        c == LessAt(less, d, first + lo, first + child)
    IN  IF child0 >= hi THEN d
        ELSE IF IsCode(right) THEN Kill(d, right)
        ELSE IF IsCode(c) THEN Kill(d, c)
        ELSE IF c = 0 THEN d
        ELSE siftDown(Swap(d, first + lo, first + child), child, hi, first, less)

RECURSIVE heapify(_, _, _, _, _)
heapify(d, i, hi, first, less) ==
    IF Dead(d) THEN d
    ELSE IF i >= 0 THEN heapify(siftDown(d, i, hi, first, less), i - 1, hi, first, less)
    ELSE d

RECURSIVE heapPop(_, _, _, _)
heapPop(d, i, first, less) ==
    IF Dead(d) THEN d
    ELSE IF i >= 0
    THEN heapPop(siftDown(Swap(d, first, first + i), 0, i, first, less), i - 1, first, less)
    ELSE d

\* Heapsort of d[a:b]: heapify, then extract the maximum repeatedly.
heapSort(d, a, b, less) ==
    LET hi == b - a
    IN  heapPop(heapify(d, (hi - 1) \div 2, hi, a, less), hi - 1, a, less)

RECURSIVE scanUp(_, _, _, _, _)
\* for i <= j && less(d[i], d[a]) { i++ }
scanUp(d, a, i, j, less) ==
    IF i <= j
    THEN LET c == LessAt(less, d, i, a)
         IN  IF IsCode(c) THEN c
             ELSE IF c = 1 THEN scanUp(d, a, i + 1, j, less)
             ELSE i
    ELSE i

RECURSIVE scanDown(_, _, _, _, _)
\* for i <= j && !less(d[j], d[a]) { j-- }
scanDown(d, a, i, j, less) ==
    IF i <= j
    THEN LET c == LessAt(less, d, j, a)
         IN  IF IsCode(c) THEN c
             ELSE IF c = 0 THEN scanDown(d, a, i, j - 1, less)
             ELSE j
    ELSE j

RECURSIVE partitionLoop(_, _, _, _, _)
partitionLoop(d, a, i0, j0, less) ==
    LET i == scanUp(d, a, i0, j0, less)
        j == IF IsCode(i) THEN i ELSE scanDown(d, a, i, j0, less)
    IN  IF IsCode(j) THEN [d |-> Kill(d, j), mid |-> a]
        ELSE IF i > j THEN [d |-> Swap(d, j, a), mid |-> j]
        ELSE partitionLoop(Swap(d, i, j), a, i + 1, j - 1, less)

\* Two-way partition of d[a:b] around d[pivot]: d[a:mid] < pivot <= d[mid+1:b];
\* already is true when no element had to be swapped.
partition(d0, a, b, pivot, less) ==
    LET d == Swap(d0, a, pivot)
        i == scanUp(d, a, a + 1, b - 1, less)
        j == IF IsCode(i) THEN i ELSE scanDown(d, a, i, b - 1, less)
    IN  IF IsCode(j) THEN [d |-> Kill(d, j), mid |-> a, already |-> FALSE]
        ELSE IF i > j THEN [d |-> Swap(d, j, a), mid |-> j, already |-> TRUE]
        ELSE LET r == partitionLoop(Swap(d, i, j), a, i + 1, j - 1, less)
             IN  [d |-> r.d, mid |-> r.mid, already |-> FALSE]

RECURSIVE scanUpEq(_, _, _, _, _)
scanUpEq(d, a, i, j, less) ==
    IF i <= j
    THEN LET c == LessAt(less, d, a, i)
         IN  IF IsCode(c) THEN c
             ELSE IF c = 0 THEN scanUpEq(d, a, i + 1, j, less)
             ELSE i
    ELSE i

RECURSIVE scanDownEq(_, _, _, _, _)
scanDownEq(d, a, i, j, less) ==
    IF i <= j
    THEN LET c == LessAt(less, d, a, j)
         IN  IF IsCode(c) THEN c
             ELSE IF c = 1 THEN scanDownEq(d, a, i, j - 1, less)
             ELSE j
    ELSE j

RECURSIVE partitionEqualLoop(_, _, _, _, _)
partitionEqualLoop(d, a, i0, j0, less) ==
    LET i == scanUpEq(d, a, i0, j0, less)
        j == IF IsCode(i) THEN i ELSE scanDownEq(d, a, i, j0, less)
    IN  IF IsCode(j) THEN [d |-> Kill(d, j), mid |-> a]
        ELSE IF i > j THEN [d |-> d, mid |-> i]
        ELSE partitionEqualLoop(Swap(d, i, j), a, i + 1, j - 1, less)

\* Duplicate-aware partition of d[a:b], whose elements are all >= the pivot:
\* d[a:mid] is equivalent to the pivot, d[mid:b] is greater.
partitionEqual(d, a, b, pivot, less) ==
    partitionEqualLoop(Swap(d, a, pivot), a, a + 1, b - 1, less)

RECURSIVE breakPatternsLoop(_, _, _, _, _, _, _)
breakPatternsLoop(d, a, length, idx, random, modulus, i) ==
    IF i < 3
    THEN LET r == xorshiftNext(random)
             o == LowBits(r, bitsLen(modulus - 1))
             other == IF o >= length THEN o - length ELSE o
         IN  breakPatternsLoop(Swap(d, idx - 1 + i, a + other),
                               a, length, idx, r, modulus, i + 1)
    ELSE d

\* breakPatterns scatters three elements around the middle of d[a:b].
breakPatterns(d, a, b) ==
    LET length == b - a
    IN  IF length >= 8
        THEN breakPatternsLoop(d, a, length, a + (length \div 4) * 2 - 1,
                               ToWord(length), nextPowerOfTwo(length), 0)
        ELSE d

\* order2, median, medianAdjacent: indices and the number of swaps so far,
\* or in its place the code of the panic that ended the comparisons.
order2(d, a, b, swaps, less) ==
    IF IsCode(swaps) THEN <<a, b, swaps>>
    ELSE LET c == LessAt(less, d, b, a)
         IN  IF IsCode(c) THEN <<a, b, c>>
             ELSE IF c = 1 THEN <<b, a, swaps + 1>>
             ELSE <<a, b, swaps>>

\* The last of the three comparisons of median: s is <<a, b, swaps>>.
medianLast(s) == <<s[2], s[3]>>

\* The second comparison: lo is the smaller of the first, s is <<b, c, swaps>>.
medianOfRest(d, lo, s, less) == medianLast(order2(d, lo, s[1], s[3], less))

\* The first comparison is done: s is <<a, b, swaps>>.
medianWith(d, s, c, less) ==
    medianOfRest(d, s[1], order2(d, s[2], c, s[3], less), less)

median(d, a, b, c, swaps, less) ==
    medianWith(d, order2(d, a, b, swaps, less), c, less)

medianAdjacent(d, a, swaps, less) == median(d, a - 1, a, a + 1, swaps, less)

\* The hint of choosePivot: no swap at all, or a swap at every comparison.
pivotHint(m) ==
    [pivot |-> m[1],
     hint |-> IF IsCode(m[2]) THEN m[2]
              ELSE IF m[2] = 0 THEN increasingHint
              ELSE IF m[2] = maxSwaps THEN decreasingHint
              ELSE unknownHint]

\* mi, mj, mk are the medians of the triples, with the swaps so far.
pivotOfMedians(d, mi, mj, mk, less) ==
    pivotHint(median(d, mi[1], mj[1], mk[1], mk[2], less))

pivotThird(d, k, mi, mj, less) ==
    pivotOfMedians(d, mi, mj, medianAdjacent(d, k, mj[2], less), less)

pivotSecond(d, j, k, mi, less) ==
    pivotThird(d, k, mi, medianAdjacent(d, j, mi[2], less), less)

\* choosePivot: the median of the medians of three triples round the quarter
\* points of d[a:b].
choosePivot(d, a, b, less) ==
    pivotSecond(d, a + ((b - a) \div 4) * 2, a + ((b - a) \div 4) * 3,
                medianAdjacent(d, a + ((b - a) \div 4) * 1, 0, less), less)

RECURSIVE reverseRangeLoop(_, _, _)
reverseRangeLoop(d, i, j) ==
    IF i < j THEN reverseRangeLoop(Swap(d, i, j), i + 1, j - 1) ELSE d

reverseRange(d, a, b) == reverseRangeLoop(d, a, b - 1)

RECURSIVE rangeSorted(_, _, _, _)
\* The scan of the fast path: 1 when d[a:b] has no descending neighbours,
\* else 0.
rangeSorted(d, a, b, less) ==
    IF b - a < 2 THEN 1
    ELSE LET c == LessAt(less, d, b - 1, b - 2)
         IN  IF IsCode(c) THEN c
             ELSE IF c = 1 THEN 0
             ELSE rangeSorted(d, a, b - 1, less)

\* The calls of pdqsort that are not finished: what is left of its loop on
\* d[a:b] with the badness budget limit, where wasBalanced and wasPartitioned
\* describe the previous partition of the range. The first one is running.
Frame(a, b, limit, wasBalanced, wasPartitioned) ==
    [a |-> a, b |-> b, limit |-> limit,
     wasBalanced |-> wasBalanced, wasPartitioned |-> wasPartitioned]

\* The running call returns.
Return(d) == [d |-> d, frames |-> <<>>]

\* After the partition pt of d[a:b]: the shorter side is sorted by a call of
\* its own, then the loop goes on with the longer one.
pdqsortSides(pt, a, b, limit) ==
    IF Dead(pt.d) THEN Return(pt.d)
    ELSE IF pt.mid - a < b - pt.mid
    THEN [d |-> pt.d,
          frames |-> <<Frame(a, pt.mid, limit, TRUE, TRUE),
                       Frame(pt.mid + 1, b, limit,
                             pt.mid - a >= (b - a) \div balanceFraction, pt.already)>>]
    ELSE [d |-> pt.d,
          frames |-> <<Frame(pt.mid + 1, b, limit, TRUE, TRUE),
                       Frame(a, pt.mid, limit,
                             b - pt.mid >= (b - a) \div balanceFraction, pt.already)>>]

\* After the duplicate-aware partition pe the loop goes on behind the
\* elements equivalent to the pivot.
pdqsortEqual(pe, b, limit, wasBalanced, wasPartitioned) ==
    IF Dead(pe.d) THEN Return(pe.d)
    ELSE [d |-> pe.d, frames |-> <<Frame(pe.mid, b, limit, wasBalanced, wasPartitioned)>>]

\* The pivot and the hint are known: the fast path for a range that looks
\* sorted, else one of the two partitions.
pdqsortPartition(d, a, b, limit, pivot, hint, wasBalanced, wasPartitioned, less) ==
    LET sorted == IF wasBalanced /\ wasPartitioned /\ hint = increasingHint
                  THEN rangeSorted(d, a, b, less) ELSE 0
        \* a > 0 && !less(d[a-1], d[pivot])
        above == IF a > 0 THEN LessAt(less, d, a - 1, pivot) ELSE 1
    IN  IF IsCode(sorted) THEN Return(Kill(d, sorted))
        ELSE IF sorted = 1 THEN Return(d)
        ELSE IF IsCode(above) THEN Return(Kill(d, above))
        ELSE IF above = 0
        THEN pdqsortEqual(partitionEqual(d, a, b, pivot, less), b, limit,
                          wasBalanced, wasPartitioned)
        ELSE pdqsortSides(partition(d, a, b, pivot, less), a, b, limit)

\* cp is what choosePivot returned: a range that looks descending is
\* reversed, and the pivot moves with it.
pdqsortPivot(d, a, b, limit, cp, wasBalanced, wasPartitioned, less) ==
    IF IsCode(cp.hint) THEN Return(Kill(d, cp.hint))
    ELSE
    pdqsortPartition(
        IF cp.hint = decreasingHint THEN reverseRange(d, a, b) ELSE d,
        a, b, limit,
        IF cp.hint = decreasingHint THEN (b - 1) - (cp.pivot - a) ELSE cp.pivot,
        IF cp.hint = decreasingHint THEN increasingHint ELSE cp.hint,
        wasBalanced, wasPartitioned, less)

pdqsortChoose(d, a, b, limit, wasBalanced, wasPartitioned, less) ==
    pdqsortPivot(d, a, b, limit, choosePivot(d, a, b, less),
                 wasBalanced, wasPartitioned, less)

\* One iteration of the loop of pdqsort on d[a:b] with the badness budget
\* limit; wasBalanced and wasPartitioned describe the previous partition.
pdqsortLoop(d, a, b, limit, wasBalanced, wasPartitioned, less) ==
    IF b - a <= maxInsertion THEN Return(insertionSort(d, a, b, less))
    ELSE IF limit = 0 THEN Return(heapSort(d, a, b, less))
    ELSE pdqsortChoose(
             IF wasBalanced THEN d ELSE breakPatterns(d, a, b),
             a, b,
             IF wasBalanced THEN limit ELSE limit - 1,
             wasBalanced, wasPartitioned, less)

\* The running call does one iteration of its loop; a panic ends them all.
pdqsortIterate(f, st, less) ==
    LET r == pdqsortLoop(st.d, f.a, f.b, f.limit, f.wasBalanced, f.wasPartitioned, less)
    IN  IF Dead(r.d) THEN Return(r.d)
        ELSE [d |-> r.d, frames |-> r.frames \o Tail(st.frames)]

pdqsortNext(st, less) == pdqsortIterate(Head(st.frames), st, less)

RECURSIVE pdqsortRun(_, _)
pdqsortRun(st, less) ==
    IF st.frames = <<>> THEN st.d ELSE pdqsortRun(pdqsortNext(st, less), less)

\* The call pdqsortLessFunc(d, a, b, limit, less) when it begins.
pdqsortEnter(d, a, b, limit) ==
    [d |-> d, frames |-> <<Frame(a, b, limit, TRUE, TRUE)>>]

pdqsortLessFunc(d, a, b, limit, less) == pdqsortRun(pdqsortEnter(d, a, b, limit), less)

\* The natural order of an ordered type as a less function.
NaturalLess == [p \in Elem \X Elem |-> OLt(p[1], p[2])]

\* pdqsortOrdered is pdqsortLessFunc with every less(a, b) replaced by a < b.
pdqsortOrdered(d, a, b, limit) == pdqsortLessFunc(d, a, b, limit, NaturalLess)

(* ----------------------- the stable sort (spec 4.6) -------------------- *)
blockSize == 20          \* the length of the runs sorted by insertion

RECURSIVE swapRangeLoop(_, _, _, _, _)
swapRangeLoop(d, a, b, n, i) ==
    IF i < n THEN swapRangeLoop(Swap(d, a + i, b + i), a, b, n, i + 1) ELSE d

swapRange(d, a, b, n) == swapRangeLoop(d, a, b, n, 0)

RECURSIVE rotateLoop(_, _, _, _)
rotateLoop(d, m, i, j) ==
    IF i # j
    THEN IF i > j THEN rotateLoop(swapRange(d, m - i, m, j), m, i - j, j)
         ELSE rotateLoop(swapRange(d, m - i, m + j - i, i), m, i, j - i)
    ELSE swapRange(d, m - i, m, i)

\* rotate exchanges the blocks d[a:m] and d[m:b], keeping the order in each.
rotate(d, a, m, b) == rotateLoop(d, m, m - a, b - m)

RECURSIVE lowerIn(_, _, _, _, _)
\* The first index of d[i:j] whose element is not less than d[a].
lowerIn(d, a, i, j, less) ==
    IF i < j
    THEN LET h == (i + j) \div 2
             c == LessAt(less, d, h, a)
         IN  IF IsCode(c) THEN c
             ELSE IF c = 1 THEN lowerIn(d, a, h + 1, j, less)
             ELSE lowerIn(d, a, i, h, less)
    ELSE i

RECURSIVE upperIn(_, _, _, _, _)
\* The first index of d[i:j] whose element d[m] is less than.
upperIn(d, m, i, j, less) ==
    IF i < j
    THEN LET h == (i + j) \div 2
             c == LessAt(less, d, m, h)
         IN  IF IsCode(c) THEN c
             ELSE IF c = 0 THEN upperIn(d, m, h + 1, j, less)
             ELSE upperIn(d, m, i, h, less)
    ELSE i

RECURSIVE bubbleUp(_, _, _)
\* for k := a; k < i-1; k++ { swap(k, k+1) }
bubbleUp(d, k, i) == IF k < i - 1 THEN bubbleUp(Swap(d, k, k + 1), k + 1, i) ELSE d

RECURSIVE bubbleDown(_, _, _)
\* for k := m; k > i; k-- { swap(k, k-1) }
bubbleDown(d, k, i) == IF k > i THEN bubbleDown(Swap(d, k, k - 1), k - 1, i) ELSE d

\* The single element d[a] of the left run goes in front of d[i].
symInsertFirst(d, a, i) == IF IsCode(i) THEN Kill(d, i) ELSE bubbleUp(d, a, i)

\* The single element d[m] of the right run goes to d[i].
symInsertLast(d, m, i) == IF IsCode(i) THEN Kill(d, i) ELSE bubbleDown(d, m, i)

RECURSIVE symSplit(_, _, _, _, _)
symSplit(d, p, start, r, less) ==
    IF start < r
    THEN LET c == (start + r) \div 2
             t == LessAt(less, d, p - c, c)
         IN  IF IsCode(t) THEN t
             ELSE IF t = 0 THEN symSplit(d, p, c + 1, r, less)
             ELSE symSplit(d, p, start, c, less)
    ELSE start

RECURSIVE symMerge(_, _, _, _, _)
\* symMerge merges the sorted runs d[a:m] and d[m:b] by rotations; of two
\* equivalent elements the one of the left run stays in front.
symMerge(d, a, m, b, less) ==
    IF Dead(d) THEN d
    ELSE IF m - a = 1 THEN symInsertFirst(d, a, lowerIn(d, a, m, b, less))
    ELSE IF b - m = 1 THEN symInsertLast(d, m, upperIn(d, m, a, m, less))
    ELSE
    LET mid == (a + b) \div 2
        n == mid + m
        start == IF m > mid THEN symSplit(d, n - 1, n - b, mid, less)
                 ELSE symSplit(d, n - 1, a, m, less)
        end == n - start
        d1 == IF start < m /\ m < end THEN rotate(d, start, m, end) ELSE d
        d2 == IF a < start /\ start < mid THEN symMerge(d1, a, start, mid, less) ELSE d1
    IN  IF IsCode(start) THEN Kill(d, start)
        ELSE IF mid < end /\ end < b THEN symMerge(d2, mid, end, b, less) ELSE d2

RECURSIVE stableBlocks(_, _, _, _, _)
\* Every full block d[a:b] of blockSize elements is sorted, then the rest.
stableBlocks(d, a, b, n, less) ==
    IF b <= n THEN stableBlocks(insertionSort(d, a, b, less), b, b + blockSize, n, less)
    ELSE insertionSort(d, a, n, less)

RECURSIVE stableMergePass(_, _, _, _, _, _)
\* One pass: neighbouring runs of length size are merged pairwise.
stableMergePass(d, a, b, n, size, less) ==
    IF b <= n
    THEN stableMergePass(symMerge(d, a, a + size, b, less), b, b + 2 * size, n, size, less)
    ELSE IF a + size < n THEN symMerge(d, a, a + size, n, less)
    ELSE d

RECURSIVE stableMerges(_, _, _, _)
stableMerges(d, n, size, less) ==
    IF size < n
    THEN stableMerges(stableMergePass(d, 0, 2 * size, n, size, less), n, 2 * size, less)
    ELSE d

stableLessFunc(d, n, less) ==
    stableMerges(stableBlocks(d, 0, blockSize, n, less), n, blockSize, less)

(* --------------------- the sorting entry points ------------------------ *)
\* A plausible slip: the last element is left out of the sorted range.
SortShort(x) == pdqsortOrdered(x, 0, Len(x) - 1, bitsLen(Len(x)))

\* n := len(x); the arguments (x, 0, n, bits.Len(uint(n))) of pdqsortOrdered.
SortArgs(x) == [d |-> x, a |-> 0, b |-> Len(x), limit |-> bitsLen(Len(x))]

Sort(x) == pdqsortOrdered(SortArgs(x).d, SortArgs(x).a, SortArgs(x).b, SortArgs(x).limit)

\* A plausible slip: the first element is left out of the sorted range.
SortFuncFromOne(less, x) ==
    IF Len(x) = 0 THEN x
    ELSE pdqsortLessFunc(x, 1, Len(x), bitsLen(Len(x)), less)

\* A plausible slip: the range handed on is one element too long.
SortFuncBeyond(less, x) == pdqsortLessFunc(x, 0, Len(x) + 1, bitsLen(Len(x)), less)

\* A plausible slip: len for bits.Len.
SortFuncArgsLen(x) == [d |-> x, a |-> 0, b |-> Len(x), limit |-> Len(x)]

\* n := len(x); the arguments (x, 0, n, bits.Len(uint(n))) of pdqsortLessFunc.
SortFuncArgs(x) == [d |-> x, a |-> 0, b |-> Len(x), limit |-> bitsLen(Len(x))]

SortFunc(less, x) ==
    pdqsortLessFunc(SortFuncArgs(x).d, SortFuncArgs(x).a, SortFuncArgs(x).b,
                    SortFuncArgs(x).limit, less)

SortKey(key, arg) == SortFunc(LtOf(key), arg)

\* A plausible slip: the unstable sort is called.
SortStableFuncUnstable(less, x) == heapSort(x, 0, Len(x), less)

SortStableFunc(less, x) == stableLessFunc(x, Len(x), less)

SortStableKey(key, data) == SortStableFunc(LtOf(key), data)

(* ----------------------- caller-supplied functions --------------------- *)
\* Key functions func(E) O: the element itself, two keys that several
\* elements share, whose NaN element has a NaN key, and math.IsNaN as 0 / 1,
\* a key that is comparable on every element.
KeyIds == {"id", "half", "mod2", "isnan"}
KeyFn(id) ==
    [e \in Elem |->
        IF id = "isnan" THEN (IF e = NaN THEN 1 ELSE 0)
        ELSE IF e = NaN THEN NaN
        ELSE IF id = "half" THEN e \div 2
        ELSE IF id = "mod2" THEN e % 2
        ELSE e]

\* less functions func(a, b E) bool: the natural order, the descending
\* order, the NaN-aware order of the doc comment of Sort, and a less that
\* compares one field only, like intPairLess of the tests: k.Lt of a key.
LessIds == {"lt", "gt", "nanlt", "half"}
LessFn(id) ==
    IF id \in KeyIds THEN LtOf(KeyFn(id))
    ELSE [p \in Elem \X Elem |->
            IF id = "gt" THEN OLt(p[2], p[1])
            ELSE IF id = "nanlt" THEN OLt(p[1], p[2]) \/ (p[1] = NaN /\ p[2] # NaN)
            ELSE OLt(p[1], p[2])]

\* cmp functions func(E, E) int: cmp of the package, a - b of the tests
\* (on integers), and k.Cmp of a key.
CmpIds == {"cmp", "sub"}
CmpFn(id) ==
    IF id \in KeyIds THEN CmpOf(KeyFn(id))
    ELSE [p \in Elem \X Elem |->
            IF id = "sub" THEN p[1] - p[2]
            ELSE IF OLt(p[1], p[2]) THEN -1
            ELSE IF OGt(p[1], p[2]) THEN 1
            ELSE 0]

NoNaN(s) == \A i \in 1..Len(s) : s[i] # NaN

(* ------------------------------- state -------------------------------- *)
VARIABLES
    mem,    \* the backing arrays, by address 1..Len(mem); address 0 is nil
    x,      \* the address of the caller's slice
    y,      \* the address of the slice the last call returned, 0 if none
    pre,    \* the contents of the caller's slice when the last call was made
    call,   \* the last call: its name and arguments; "idle" before a call
    ret,    \* what the last call returned: a position, a found flag, a bool,
            \* and in out how it ended: 0 by returning, else the panic
    sn,     \* search: the n it is called with
    sf,     \* search: the predicate it is called with, by index
    sret,   \* search: the index it returned, -1 before the call
    sl,     \* search, step by step: i, j and what the loop has done so far
    kq,     \* Key: the key, the two elements and what its methods returned
    pq,     \* pdqsort step by step: the call, the array, the unfinished calls
    pt,     \* pdqsort step by step: the number of steps the call has taken
    Buf,    \* Queue: the elements of q.Buf
    mu,     \* Queue: the RWMutex of q: the goroutines that hold it
    proc,   \* Queue: each goroutine's call on q: its position and locals
    cells,  \* Queue: the variables that Pop returned pointers to
    want,   \* Queue: Buf as the calls that ended leave it, taken one by one
    calls,  \* Queue: the number of calls made on q
    crashed, \* Queue: a goroutine has panicked, the program is gone
    feed,   \* chans: the values that are sent: the slice given to Lazify
    ch,     \* chans: the channels: buffer, capacity, closed
    gor,    \* chans: the goroutine of Lazify or Tee: its position and locals
    rcv     \* chans: the receivers of the returned channels and what they got

vars == <<mem, x, y, pre, call, ret, sn, sf, sret, sl, kq, pq, pt,
          Buf, mu, proc, cells, want, calls, crashed, feed, ch, gor, rcv>>
sortVars == <<mem, x, y, pre, call, ret>>
searchVars == <<sn, sf, sret, sl>>
keyVars == <<kq>>
\* The variables of the packages other than slices' sorting and searching.
pdqVars == <<pq, pt>>
queueVars == <<Buf, mu, proc, cells, want, calls, crashed>>
chanVars == <<feed, ch, gor, rcv>>
concVars == <<queueVars, chanVars>>
otherVars == <<keyVars, pdqVars, concVars>>

Nil == 0
Deref(m, p) == IF p = Nil THEN <<>> ELSE m[p]
Store(m, p, s) == IF p = Nil THEN m ELSE [m EXCEPT ![p] = s]

X == Deref(mem, x)

NoCall == [op |-> "idle", fn |-> "none", target |-> NaN]
NoRet == [pos |-> -1, found |-> FALSE, ok |-> FALSE, out |-> 0]

\* A plausible slip: the argument itself is returned.
CloneAlias(m, p) == [mem |-> m, ptr |-> p]

\* Clone: nil for nil, else a new array with the same elements.
Clone(m, p) ==
    IF p = Nil THEN [mem |-> m, ptr |-> Nil]
    ELSE [mem |-> Append(m, m[p]), ptr |-> Len(m) + 1]

\* Sorted, SortedFunc, SortedKey: y := Clone(x); sort y; return y.
Sorted(m, p) ==
    LET c == Clone(m, p)
    IN  [mem |-> Store(c.mem, c.ptr, Sort(Deref(c.mem, c.ptr))), ptr |-> c.ptr]

SortedFunc(less, m, p) ==
    LET c == Clone(m, p)
    IN  [mem |-> Store(c.mem, c.ptr, SortFunc(less, Deref(c.mem, c.ptr))), ptr |-> c.ptr]

SortedKey(k, m, p) == SortedFunc(LtOf(k), m, p)

\* The inputs: every slice of up to MaxLen elements, and long slices, which
\* reach the partitioning of the adaptive sort and the merging of the stable
\* sort: a seed repeated element by element (runs) or as a whole (periods).
ShortInputs == UNION {[1..n -> Elem] : n \in 0..MaxLen}
SeedElem == {NaN, 0, 1, MaxElem}
Seeds == UNION {[1..n -> SeedElem] : n \in 1..SeedLen}
LongLens == {maxInsertion + 1, blockSize + LongExtra}
Stretch(s, n) == [i \in 1..n |-> s[((i - 1) * Len(s)) \div n + 1]]
Tile(s, n) == [i \in 1..n |-> s[((i - 1) % Len(s)) + 1]]
LongInputs == {Stretch(s, n) : s \in Seeds, n \in LongLens}
                  \cup {Tile(s, n) : s \in Seeds, n \in LongLens}
Inputs == ShortInputs \cup LongInputs

\* No call of the sorting entry points, of search, of the other packages.
SortOff ==
    /\ x = Nil /\ mem = <<>> /\ y = Nil /\ pre = <<>>
    /\ call = NoCall /\ ret = NoRet
SearchOff == sn = 0 /\ sf = <<>> /\ sret = -1 /\ sl = <<>>
KeyOff == kq = <<>>
PdqOff == pq = [at |-> "off"] /\ pt = 0
QueueOff ==
    /\ Buf = <<>> /\ mu = [readers |-> {}, writer |-> 0] /\ proc = <<>>
    /\ cells = <<>> /\ want = <<>> /\ calls = 0 /\ crashed = FALSE
ChanOff == feed = <<>> /\ ch = <<>> /\ gor = <<>> /\ rcv = <<>>
ConcOff == QueueOff /\ ChanOff
OthersOff == KeyOff /\ PdqOff /\ ConcOff

\* The caller holds nil, or a slice of one of the inputs.
Init ==
    /\ \/ x = Nil /\ mem = <<>>
       \/ x = 1 /\ \E s \in Inputs : mem = <<s>>
    /\ y = Nil
    /\ pre = Deref(mem, x)
    /\ call = NoCall
    /\ ret = NoRet
    /\ SearchOff /\ OthersOff

\* A call is made by a caller that holds no pending result.
Idle == call.op = "idle"

\* The caller takes the result and goes on with its slice, as long as that
\* is one of the enumerated slices; the array of a returned clone is dropped.
Resume ==
    /\ ~Idle
    /\ X \in Inputs
    /\ mem' = IF x = Nil THEN <<>> ELSE <<mem[x]>>
    /\ y' = Nil
    /\ pre' = X
    /\ call' = NoCall
    /\ ret' = NoRet
    /\ UNCHANGED <<x, searchVars, otherVars>>

Query(op, fn, t, pos, found, ok) ==
    /\ Idle
    /\ call' = [op |-> op, fn |-> fn, target |-> t]
    /\ ret' = [pos |-> pos, found |-> found, ok |-> ok, out |-> 0]
    /\ pre' = X
    /\ UNCHANGED <<mem, x, y, searchVars, otherVars>>

Mutate(op, fn, m, p) ==
    /\ Idle
    /\ call' = [op |-> op, fn |-> fn, target |-> NaN]
    /\ ret' = NoRet
    /\ pre' = X
    /\ mem' = m
    /\ y' = p
    /\ UNCHANGED <<x, searchVars, otherVars>>

DoSort == Mutate("Sort", "none", Store(mem, x, Sort(X)), Nil)

DoSortFunc ==
    \E id \in LessIds :
        Mutate("SortFunc", id, Store(mem, x, SortFunc(LessFn(id), X)), Nil)

DoSortKey ==
    \E id \in KeyIds :
        Mutate("SortKey", id, Store(mem, x, SortKey(KeyFn(id), X)), Nil)

DoSortStableFunc ==
    \E id \in LessIds :
        Mutate("SortStableFunc", id, Store(mem, x, SortStableFunc(LessFn(id), X)), Nil)

DoSortStableKey ==
    \E id \in KeyIds :
        Mutate("SortStableKey", id, Store(mem, x, SortStableKey(KeyFn(id), X)), Nil)

DoSorted == LET r == Sorted(mem, x) IN Mutate("Sorted", "none", r.mem, r.ptr)

DoSortedFunc ==
    \E id \in LessIds :
        LET r == SortedFunc(LessFn(id), mem, x) IN Mutate("SortedFunc", id, r.mem, r.ptr)

DoSortedKey ==
    \E id \in KeyIds :
        LET r == SortedKey(KeyFn(id), mem, x) IN Mutate("SortedKey", id, r.mem, r.ptr)

DoIsSorted == Query("IsSorted", "none", NaN, -1, FALSE, IsSorted(X))

DoIsSortedFunc ==
    \E id \in LessIds :
        Query("IsSortedFunc", id, NaN, -1, FALSE, IsSortedFunc(LessFn(id), X) = 1)

DoIsSortedKey ==
    \E id \in KeyIds :
        Query("IsSortedKey", id, NaN, -1, FALSE, IsSortedKey(KeyFn(id), X) = 1)

DoBinarySearch ==
    \E t \in Elem :
        LET r == BinarySearch(t, X)
        IN  Query("BinarySearch", "none", t, r[1], r[2], FALSE)

\* a - b is a comparison of integers: it is not applied to a NaN.
DoBinarySearchFunc ==
    \E id \in CmpIds, t \in Elem :
        /\ id = "sub" => (NoNaN(X) /\ t # NaN)
        /\ LET r == BinarySearchFunc(CmpFn(id), t, X)
           IN  Query("BinarySearchFunc", id, t, r[1], r[2], FALSE)

DoBinarySearchKey ==
    \E id \in KeyIds, t \in Elem :
        LET r == BinarySearchKey(KeyFn(id), t, X)
        IN  Query("BinarySearchKey", id, t, r[1], r[2], FALSE)

Next ==
    \/ Resume
    \/ DoSort
    \/ DoSortFunc
    \/ DoSortKey
    \/ DoSortStableFunc
    \/ DoSortStableKey
    \/ DoSorted
    \/ DoSortedFunc
    \/ DoSortedKey
    \/ DoIsSorted
    \/ DoIsSortedFunc
    \/ DoIsSortedKey
    \/ DoBinarySearch
    \/ DoBinarySearchFunc
    \/ DoBinarySearchKey

Spec == Init /\ [][Next]_vars

(* ------------- functions of the caller that misbehave: SpecRun --------- *)
\* Boolean functions that are no strict weak ordering: <=, !=, a cycle, and
\* the sixteen functions of the parities of the two arguments, named by
\* their values on (even, even), (even, odd), (odd, even), (odd, odd).
ParityTables ==
    <<"0000", "1000", "0100", "1100", "0010", "1010", "0110", "1110",
      "0001", "1001", "0101", "1101", "0011", "1011", "0111", "1111">>
TableNo(id) == CHOOSE n \in 0..(Len(ParityTables) - 1) : ParityTables[n + 1] = id
WildIds == {"le", "ne", "cycle"} \cup {ParityTables[n] : n \in 1..Len(ParityTables)}
WildFn(id) ==
    [p \in Elem \X Elem |->
        IF id = "le" THEN OLe(p[1], p[2])
        ELSE IF id = "ne" THEN p[1] # p[2]
        ELSE IF id = "cycle" THEN (p[2] - p[1]) % 3 = 1
        ELSE Bit(TableNo(id), 2 * (p[1] % 2) + (p[2] % 2)) = 1]

\* Functions that panic: on the element Bad, like a method called through a
\* nil field of it, and on a pair of equal elements.
Bad == MaxElem
Sound == Elem \ {Bad}
PanicLessIds == {"lt!", "distinct!"}
PanicLessFn(id) ==
    IF id = "lt!" THEN [p \in Sound \X Sound |-> OLt(p[1], p[2])]
    ELSE [p \in {q \in Elem \X Elem : q[1] # q[2]} |-> OLt(p[1], p[2])]
PanicKeyIds == {"id!"}
PanicKeyFn(id) == [e \in Sound |-> e]
PanicCmpIds == {"cmp!"}
PanicCmpFn(id) == [p \in Sound \X Sound |-> CmpFn("cmp")[p]]

RunLessIds == WildIds \cup PanicLessIds
RunLessFn(id) == IF id \in PanicLessIds THEN PanicLessFn(id) ELSE WildFn(id)

InitRun == Init

\* A call on the caller's slice ended with the array d: by returning, or by
\* the panic behind its elements.
Ended(op, fn, d) ==
    /\ Idle
    /\ call' = [op |-> op, fn |-> fn, target |-> NaN]
    /\ ret' = [NoRet EXCEPT !.out = Ending(d)]
    /\ pre' = X
    /\ mem' = Store(mem, x, Remains(d))
    /\ y' = Nil
    /\ UNCHANGED <<x, searchVars, otherVars>>

RunSort == Ended("Sort", "none", Sort(X))

RunSortFunc ==
    \E id \in RunLessIds : Ended("SortFunc", id, SortFunc(RunLessFn(id), X))

RunSortKey ==
    \E id \in PanicKeyIds : Ended("SortKey", id, SortKey(PanicKeyFn(id), X))

RunSortStableFunc ==
    \E id \in RunLessIds :
        Ended("SortStableFunc", id, SortStableFunc(RunLessFn(id), X))

RunIsSortedFunc ==
    \E id \in PanicLessIds :
        LET r == IsSortedFunc(PanicLessFn(id), X)
        IN  /\ Idle
            /\ call' = [op |-> "IsSortedFunc", fn |-> id, target |-> NaN]
            /\ ret' = [NoRet EXCEPT !.ok = (r = 1), !.out = IF IsCode(r) THEN r ELSE 0]
            /\ pre' = X
            /\ UNCHANGED <<mem, x, y, searchVars, otherVars>>

RunBinarySearchFunc ==
    \E id \in PanicCmpIds, t \in Elem :
        LET r == BinarySearchFunc(PanicCmpFn(id), t, X)
        IN  /\ Idle
            /\ call' = [op |-> "BinarySearchFunc", fn |-> id, target |-> t]
            /\ ret' = IF IsCode(r[1]) THEN [NoRet EXCEPT !.out = r[1]]
                       ELSE [NoRet EXCEPT !.pos = r[1], !.found = r[2]]
            /\ pre' = X
            /\ UNCHANGED <<mem, x, y, searchVars, otherVars>>

NextRun ==
    \/ Resume
    \/ RunSort
    \/ RunSortFunc
    \/ RunSortKey
    \/ RunSortStableFunc
    \/ RunIsSortedFunc
    \/ RunBinarySearchFunc

SpecRun == InitRun /\ [][NextRun]_vars

(* ------------- the adaptive sort step by step: SpecPdq ----------------- *)
\* Sort and SortFunc are called on the empty slice, on the seeds and on the
\* long inputs made of them; every iteration of the loop of pdqsort is a step. The functions are the ones of the other
\* specifications and three that are no strict weak ordering.
PdqLessIds == LessIds \cup {"1111", "le", "cycle"}
PdqInputs == {<<>>} \cup Seeds \cup LongInputs
PdqLessFn(id) == IF id \in LessIds THEN LessFn(id) ELSE WildFn(id)
PdqLess == IF pq.op = "Sort" THEN NaturalLess ELSE PdqLessFn(pq.fn)
PdqArgs(op, s) == IF op = "Sort" THEN SortArgs(s) ELSE SortFuncArgs(s)

InitPdq ==
    /\ SortOff /\ SearchOff /\ KeyOff /\ ConcOff
    /\ pq = [op |-> "none", fn |-> "none", x |-> <<>>, at |-> "idle",
             d |-> <<>>, frames |-> <<>>]
    /\ pt = 0

\* The entry point op is called on the slice s with the function fn, and
\* calls pdqsortOrdered or pdqsortLessFunc.
PdqCall(op, fn, s) ==
    /\ pq.at = "idle"
    /\ pq' = [op |-> op, fn |-> fn, x |-> s, at |-> "loop",
              d |-> pdqsortEnter(PdqArgs(op, s).d, PdqArgs(op, s).a,
                                 PdqArgs(op, s).b, PdqArgs(op, s).limit).d,
              frames |-> pdqsortEnter(PdqArgs(op, s).d, PdqArgs(op, s).a,
                                      PdqArgs(op, s).b, PdqArgs(op, s).limit).frames]
    /\ pt' = 0
    /\ UNCHANGED <<sortVars, searchVars, keyVars, concVars>>

PdqSort == \E s \in PdqInputs : PdqCall("Sort", "none", s)

PdqSortFunc == \E s \in PdqInputs, id \in PdqLessIds : PdqCall("SortFunc", id, s)

\* One iteration of the loop of the running call.
PdqIterate ==
    /\ pq.at = "loop" /\ pq.frames # <<>>
    /\ pq' = [pq EXCEPT
                 !.d = pdqsortNext([d |-> pq.d, frames |-> pq.frames], PdqLess).d,
                 !.frames = pdqsortNext([d |-> pq.d, frames |-> pq.frames], PdqLess).frames]
    /\ pt' = pt + 1
    /\ UNCHANGED <<sortVars, searchVars, keyVars, concVars>>

\* The last call has returned, and so does the entry point.
PdqReturn ==
    /\ pq.at = "loop" /\ pq.frames = <<>>
    /\ pq' = [pq EXCEPT !.at = "done"]
    /\ pt' = pt + 1
    /\ UNCHANGED <<sortVars, searchVars, keyVars, concVars>>

NextPdq ==
    \/ PdqSort
    \/ PdqSortFunc
    \/ PdqIterate
    \/ PdqReturn

\* A step of the sort that is running: an iteration or the return, one of
\* which it can always take.
PdqStep == pq.at = "loop" /\ pt' = pt + 1

\* A sort that was called runs on a goroutine that nothing stops: its next
\* step is taken. Nobody has to call it.
SpecPdq == InitPdq /\ [][NextPdq]_vars /\ WF_pt(PdqStep)

(* --------------------- search on its own: SpecSearch ------------------- *)
\* search is called with every n in 0..MaxN and every predicate on 0..n-1.
InitSearch ==
    /\ SortOff /\ OthersOff
    /\ sn \in 0..MaxN
    /\ sf \in [0..(sn - 1) -> BOOLEAN]
    /\ sret = -1
    /\ sl = <<>>

DoSearch ==
    /\ sret = -1
    /\ sret' = search(sn, sf)
    /\ UNCHANGED <<sortVars, sn, sf, sl, otherVars>>

NextSearch == DoSearch

SpecSearch == InitSearch /\ [][NextSearch]_vars

(* ------------------- the methods of Key: SpecKey ----------------------- *)
\* The methods of a key k are called on every pair of elements.
InitKey ==
    /\ SortOff /\ SearchOff /\ PdqOff /\ ConcOff
    /\ \E id \in KeyIds, a, b \in Elem :
           kq = [k |-> id, a |-> a, b |-> b, done |-> FALSE,
                 lt |-> FALSE, le |-> FALSE, gt |-> FALSE, ge |-> FALSE,
                 eq |-> FALSE, ne |-> FALSE, tl |-> FALSE, cmp |-> 0]

\* Lt, Le, Gt, Ge, Eq, Ne and Cmp of (a, b), and Lt of (b, a).
DoKey ==
    /\ ~kq.done
    /\ kq' = [kq EXCEPT
                !.done = TRUE,
                !.lt = KeyLt(KeyFn(kq.k), kq.a, kq.b),
                !.le = KeyLe(KeyFn(kq.k), kq.a, kq.b),
                !.gt = KeyGt(KeyFn(kq.k), kq.a, kq.b),
                !.ge = KeyGe(KeyFn(kq.k), kq.a, kq.b),
                !.eq = KeyEq(KeyFn(kq.k), kq.a, kq.b),
                !.ne = KeyNe(KeyFn(kq.k), kq.a, kq.b),
                !.tl = KeyLt(KeyFn(kq.k), kq.b, kq.a),
                !.cmp = KeyCmp(KeyFn(kq.k), kq.a, kq.b)]
    /\ UNCHANGED <<sortVars, searchVars, pdqVars, concVars>>

NextKey == DoKey

SpecKey == InitKey /\ [][NextKey]_vars

(* ============================== claims =============================== *)
Elems(s) == {s[i] : i \in 1..Len(s)}
Count(e, s) == Cardinality({i \in 1..Len(s) : s[i] = e})
Permutation(s, t) == Len(s) = Len(t) /\ \A e \in Elem : Count(e, s) = Count(e, t)
Ascending(less, s) == \A i, j \in 1..Len(s) : i < j => ~less[<<s[j], s[i]>>]
Equiv(less, a, b) == ~less[<<a, b>>] /\ ~less[<<b, a>>]
Filter(s, S) == SelectSeq(s, LAMBDA e : e \in S)

\* less is a strict weak ordering of the values S.
StrictWeak(less, S) ==
    /\ \A a \in S : ~less[<<a, a>>]
    /\ \A a, b, c \in S : less[<<a, b>>] /\ less[<<b, c>>] => less[<<a, c>>]
    /\ \A a, b, c \in S : Equiv(less, a, b) /\ Equiv(less, b, c) => Equiv(less, a, c)

\* s is s0 with the order of equivalent elements kept: every class of
\* equivalent elements is the same subsequence of both.
KeepsOrder(less, s0, s) ==
    \A u \in Elems(s0) :
        LET class == {v \in Elems(s0) : Equiv(less, u, v)}
        IN  Filter(s, class) = Filter(s0, class)

Y == Deref(mem, y)
Less == LessFn(call.fn)

\* C1: after Sort on a slice without incomparable values, and after SortFunc
\* with a less that is a strict weak ordering of the elements, no later
\* element is less than an earlier one, and IsSorted / IsSortedFunc say so.
C1_SortAscending ==
    /\ (call.op = "Sort" /\ NoNaN(pre))
           => (Ascending(NaturalLess, X) /\ IsSorted(X))
    /\ (call.op = "SortFunc" /\ StrictWeak(Less, Elems(pre)))
           => (Ascending(Less, X) /\ IsSortedFunc(Less, X) = 1)

\* C1 happens: a long slice out of order was sorted by the partitioning sort.
C1_Witness ==
    /\ call.op = "Sort" /\ NoNaN(pre) /\ Len(pre) > maxInsertion
    /\ ~Ascending(NaturalLess, pre)
    /\ X # pre

\* C2: Sort and SortFunc permute the slice: the same length and the same
\* number of every value as before, whatever the input and the less,
\* incomparable values included.
C2_SortPermutes ==
    call.op \in {"Sort", "SortFunc"} => Permutation(X, pre)

\* C2 happens: a long slice holding a NaN was rearranged by Sort.
C2_Witness ==
    /\ call.op = "Sort" /\ ~NoNaN(pre) /\ Len(pre) > maxInsertion
    /\ X # pre

\* C3: Sorted, SortedFunc and SortedKey leave the argument as it was and
\* return another slice, which holds what Sort / SortFunc makes of the
\* argument's elements.
C3_SortedLeavesArgument ==
    call.op \in {"Sorted", "SortedFunc", "SortedKey"} =>
        /\ X = pre
        /\ x # Nil => (y # Nil /\ y # x)
        /\ Len(Y) = Len(pre)
        /\ call.op = "Sorted" => Y = Sort(pre)
        /\ call.op = "SortedFunc" => Y = SortFunc(Less, pre)
        /\ call.op = "SortedKey" => Y = SortFunc(LtOf(KeyFn(call.fn)), pre)

\* C3 happens: Sorted returned a slice that differs from its unsorted argument.
C3_Witness ==
    /\ call.op = "Sorted" /\ ~IsSorted(pre) /\ NoNaN(pre)
    /\ Y # pre /\ X = pre /\ IsSorted(Y)

\* C4: after SortStableFunc with a less that is a strict weak ordering the
\* slice is ascending and equivalent elements are in the order they had.
C4_StableSort ==
    (call.op = "SortStableFunc" /\ StrictWeak(Less, Elems(pre))) =>
        /\ Ascending(Less, X)
        /\ Permutation(X, pre)
        /\ KeepsOrder(Less, pre, X)

\* C4 happens: a slice longer than a block, with distinct equivalent
\* elements out of order, was sorted by the one-field less.
C4_Witness ==
    /\ call.op = "SortStableFunc" /\ call.fn = "half"
    /\ Len(pre) > blockSize /\ NoNaN(pre)
    /\ ~Ascending(Less, pre)
    /\ \E a, b \in Elems(pre) : a # b /\ Equiv(Less, a, b)

\* The least index of s whose element is >= t, Len(s) if there is none.
LeastGe(t, s) ==
    LET hits == {i \in 0..(Len(s) - 1) : OGe(At(s, i), t)}
    IN  IF hits = {} THEN Len(s) ELSE CHOOSE i \in hits : \A k \in hits : i <= k

\* What C5 says of BinarySearch(call.target, pre) = <<ret.pos, ret.found>>.
BinarySearchResult ==
    /\ ret.pos = LeastGe(call.target, pre)
    /\ ret.found <=> (ret.pos < Len(pre) /\ OEq(At(pre, ret.pos), call.target))
    /\ pre = <<>> => (ret.pos = 0 /\ ~ret.found)

\* C5 as stated: on every slice that is ascending under the natural order
\* BinarySearch returns the least index whose element is >= the target, the
\* length if there is none, and found exactly when the element there is the
\* target.  A slice that holds an incomparable value breaks it.
C5_AnyAscending ==
    (call.op = "BinarySearch" /\ Ascending(NaturalLess, pre)) => BinarySearchResult

\* C5, amended: the same on every ascending slice without incomparable
\* values, for every target.
C5_BinarySearch ==
    (call.op = "BinarySearch" /\ NoNaN(pre) /\ Ascending(NaturalLess, pre)) =>
        BinarySearchResult

\* C5 happens: the target was found at the start of a run of duplicates that
\* does not begin the slice.
C5_Witness ==
    /\ call.op = "BinarySearch" /\ NoNaN(pre) /\ Ascending(NaturalLess, pre)
    /\ ret.found /\ ret.pos > 0
    /\ ret.pos + 1 < Len(pre) /\ At(pre, ret.pos + 1) = call.target

Monotone(n, f) ==
    \E k \in 0..n : \A i \in 0..(n - 1) : f[i] <=> (i >= k)

\* C6: for a monotone predicate search returns the least index at which it
\* is true, and n when it is false everywhere.
C6_SearchLeast ==
    (sret # -1 /\ Monotone(sn, sf)) =>
        /\ sret \in 0..sn
        /\ \A i \in 0..(sn - 1) : sf[i] <=> (i >= sret)

\* C6 happens: search returned a threshold inside the range.
C6_Witness ==
    /\ sret # -1 /\ Monotone(sn, sf)
    /\ 0 < sret /\ sret < sn /\ sn >= 4

\* C7 as stated: Sort of a slice that Sort has returned changes no element,
\* for every slice of an ordered type.  A slice that holds an incomparable
\* value breaks it.
C7_AnySlice ==
    call.op = "Sort" => Sort(X) = X

\* C7, amended: Sort of a slice that Sort has returned changes no element,
\* for every slice without incomparable values.
C7_SortIdempotent ==
    (call.op = "Sort" /\ NoNaN(pre)) => Sort(X) = X

\* C7 happens: Sort changed a long slice, whose result is then sorted again.
C7_Witness ==
    /\ call.op = "Sort" /\ NoNaN(pre) /\ X # pre
    /\ Len(pre) > maxInsertion /\ Cardinality(Elems(pre)) > 2

\* C8 as stated: IsSorted returns true exactly when no later element is
\* less than an earlier one, on every slice.  With an incomparable value
\* between a descending pair the neighbours do not show the pair.
C8_AnySlice ==
    call.op = "IsSorted" => (ret.ok <=> Ascending(NaturalLess, pre))

\* C8, amended: IsSorted (on a slice without incomparable values) and
\* IsSortedFunc (for a less that is a strict weak ordering of the elements)
\* return true exactly when no later element is less than an earlier one:
\* true for lengths 0 and 1 and for equal neighbours, false for one
\* descending pair of neighbours; and they leave x alone.
C8_IsSorted ==
    /\ (call.op = "IsSorted" /\ NoNaN(pre)) =>
           /\ ret.ok <=> Ascending(NaturalLess, pre)
           /\ Len(pre) <= 1 => ret.ok
           /\ pre = <<1, 1, 2, 3>> => ret.ok
           /\ pre = <<2, 1>> => ~ret.ok
    /\ (call.op = "IsSortedFunc" /\ StrictWeak(Less, Elems(pre))) =>
           (ret.ok <=> Ascending(Less, pre))
    /\ call.op \in {"IsSorted", "IsSortedFunc"} => X = pre

\* C8 happens: a slice whose only descending pair is the first one was
\* found unsorted.
C8_Witness ==
    /\ call.op = "IsSorted" /\ NoNaN(pre) /\ Len(pre) >= 3
    /\ ~ret.ok
    /\ OLt(At(pre, 1), At(pre, 0))
    /\ Ascending(NaturalLess, Tail(pre))

\* cmp agrees with the natural order on the values S.
Agrees(cmp, S) ==
    \A a, b \in S :
        /\ cmp[<<a, b>>] < 0 <=> OLt(a, b)
        /\ cmp[<<a, b>>] = 0 <=> OEq(a, b)
        /\ cmp[<<a, b>>] > 0 <=> OGt(a, b)

\* C9: on an ascending slice BinarySearchFunc with a cmp that agrees with
\* the natural order returns what BinarySearch returns.
C9_BinarySearchFunc ==
    (/\ call.op = "BinarySearchFunc"
     /\ Ascending(NaturalLess, pre)
     /\ Agrees(CmpFn(call.fn), Elems(pre) \cup {call.target})) =>
        <<ret.pos, ret.found>> = BinarySearch(call.target, pre)

\* C9 happens: a - b found the target at the start of a run of duplicates.
C9_Witness ==
    /\ call.op = "BinarySearchFunc" /\ call.fn = "sub"
    /\ Ascending(NaturalLess, pre)
    /\ ret.found /\ ret.pos > 0
    /\ ret.pos + 1 < Len(pre) /\ At(pre, ret.pos + 1) = call.target

K == KeyFn(call.fn)
\* The least index of s whose key is not less than the key of t.
LeastKeyGe(k, t, s) ==
    LET hits == {i \in 0..(Len(s) - 1) : ~OLt(k[At(s, i)], k[t])}
    IN  IF hits = {} THEN Len(s) ELSE CHOOSE i \in hits : \A j \in hits : i <= j

\* No element of s has an incomparable key.
KeysComparable(k, s) == \A i \in 1..Len(s) : k[s[i]] # NaN

\* What C10 says of BinarySearchKey(K, call.target, pre).
BinarySearchKeyResult ==
    /\ ret.pos = LeastKeyGe(K, call.target, pre)
    /\ ret.found <=>
           (ret.pos < Len(pre) /\ OEq(K[At(pre, ret.pos)], K[call.target]))

\* C10 as stated: for every key function, on every slice ascending by key,
\* BinarySearchKey returns the least index whose key is not less than the
\* key of the target, found exactly when the key there equals it.  A slice
\* with an incomparable key breaks it.
C10_AnyKey ==
    (call.op = "BinarySearchKey" /\ Ascending(LtOf(K), pre)) => BinarySearchKeyResult

\* C10, amended: the key-derived comparators look at the keys only.  On a
\* slice ascending by key, none of its keys incomparable, BinarySearchKey
\* returns the least index whose key is not less than the key of the target,
\* found exactly when the key there equals it; IsSortedKey, SortKey and
\* SortStableKey order by key, and elements with equal keys are equivalent
\* for them.
C10_KeyOnly ==
    /\ (call.op = "BinarySearchKey" /\ KeysComparable(K, pre)
            /\ Ascending(LtOf(K), pre)) => BinarySearchKeyResult
    /\ (call.op = "IsSortedKey" /\ KeysComparable(K, pre)) =>
           (ret.ok <=> \A i, j \in 1..Len(pre) : i < j => K[pre[i]] <= K[pre[j]])
    /\ (call.op = "SortKey" /\ KeysComparable(K, pre)) =>
           /\ \A i, j \in 1..Len(X) : i < j => K[X[i]] <= K[X[j]]
           /\ Permutation(X, pre)
    /\ (call.op = "SortStableKey" /\ KeysComparable(K, pre)) =>
           /\ \A i, j \in 1..Len(X) : i < j => K[X[i]] <= K[X[j]]
           /\ \A k \in {K[e] : e \in Elems(pre)} :
                  Filter(X, {e \in Elem : K[e] = k}) = Filter(pre, {e \in Elem : K[e] = k})

\* C10 happens: BinarySearchKey found an element that has the key of the
\* target and is not the target.
C10_Witness ==
    /\ call.op = "BinarySearchKey" /\ call.fn = "half"
    /\ KeysComparable(K, pre) /\ call.target # NaN /\ Ascending(LtOf(K), pre)
    /\ ret.found /\ ret.pos > 0
    /\ At(pre, ret.pos) # call.target

\* What C11 says of the methods of one key on one pair (a, b).
KeyRelations ==
    /\ kq.gt <=> kq.tl
    /\ kq.le <=> ~kq.tl
    /\ kq.ge <=> ~kq.lt
    /\ kq.eq <=> (~kq.lt /\ ~kq.tl)
    /\ kq.ne <=> ~kq.eq
    /\ kq.cmp < 0 <=> kq.lt
    /\ kq.cmp = 0 <=> kq.eq
    /\ kq.cmp > 0 <=> kq.gt
    /\ Cardinality({r \in {"lt", "eq", "gt"} : kq[r]}) = 1

\* C11 as stated: for every key and all elements a, b: Gt(a,b) = Lt(b,a),
\* Le(a,b) = not Lt(b,a), Ge(a,b) = not Lt(a,b), Eq(a,b) exactly when neither
\* is less, Ne = not Eq, and Cmp is negative, zero, positive exactly when
\* Lt, Eq, Gt holds, exactly one of them holding.  An incomparable key
\* breaks it.
C11_AnyKey ==
    (kq # <<>> /\ kq.done) => KeyRelations

\* C11, amended: the same for every key and all elements a, b whose keys
\* are comparable.
C11_KeyRelations ==
    (kq # <<>> /\ kq.done /\ KeyFn(kq.k)[kq.a] # NaN /\ KeyFn(kq.k)[kq.b] # NaN)
        => KeyRelations

\* C11 happens: two different elements with the same key were compared.
C11_Witness ==
    /\ kq # <<>> /\ kq.done /\ kq.k = "half"
    /\ kq.a # kq.b /\ kq.a # NaN /\ kq.b # NaN
    /\ kq.eq /\ kq.cmp = 0

\* C12: during Sort, SortFunc and SortStableFunc no index outside 0..n-1 is
\* read, written or swapped, and the slice holds a permutation of the input
\* when the call ends, by returning or by a panic of less; this also when
\* less is an arbitrary boolean function and no strict weak ordering.
C12_InRange ==
    call.op \in {"Sort", "SortFunc", "SortStableFunc"} =>
        /\ ret.out # Fault
        /\ Permutation(X, pre)

\* C12 happens: a long slice was sorted with a less that has a cycle, and
\* what SortFunc left is in no order of it.
C12_Witness ==
    /\ call.op = "SortFunc" /\ call.fn = "cycle"
    /\ Len(pre) > blockSize
    /\ ret.out = 0
    /\ X # pre
    /\ ~Ascending(WildFn("cycle"), X)
\* The number of bits of n: 0 for 0, else the k with 2^(k-1) <= n < 2^k.
BitsOf(n) ==
    CHOOSE k \in 0..n : IF n = 0 THEN k = 0 ELSE k > 0 /\ 2 ^ (k - 1) <= n /\ n < 2 ^ k

\* The calls the last iteration has made: the ones in front of the calls
\* that were waiting.
NewFrames == SubSeq(pq'.frames, 1, Len(pq'.frames) - Len(pq.frames) + 1)

\* The length of the shorter side of the partition that made two calls.
ShorterSide(f, new) ==
    IF new[1].a = f.a THEN new[1].b - f.a ELSE f.b - new[2].b

\* The budget is never negative, and no two unfinished calls share an index.
BudgetInv ==
    pq.at = "loop" =>
        /\ \A i \in 1..Len(pq.frames) : pq.frames[i].limit >= 0
        /\ \A i, j \in 1..Len(pq.frames) :
               i < j => \/ pq.frames[i].b <= pq.frames[j].a
                        \/ pq.frames[j].b <= pq.frames[i].a

\* The call begins with one frame: the whole slice and the budget bits.Len(n).
BudgetStarts ==
    (pq.at = "idle" /\ pq'.at = "loop") =>
        /\ Len(pq'.frames) = 1
        /\ pq'.frames[1].a = 0 /\ pq'.frames[1].b = Len(pq'.x)
        /\ pq'.frames[1].limit = BitsOf(Len(pq'.x))

\* An iteration of the running call f: the budget goes down by one exactly
\* when the last partition of the range was unbalanced, the range goes on
\* as unbalanced only when it was, or when the shorter side of its new
\* partition is below the fraction; with no budget left the range is
\* finished at once, without a partition, and is sorted if less is an order.
BudgetIteration(f) ==
    /\ \A i \in 1..Len(NewFrames) :
           /\ NewFrames[i].limit = IF f.wasBalanced THEN f.limit ELSE f.limit - 1
           /\ NewFrames[i].limit < f.limit => ~f.wasBalanced
           /\ ~NewFrames[i].wasBalanced =>
                  \/ Len(NewFrames) = 1 /\ ~f.wasBalanced
                  \/ /\ Len(NewFrames) = 2
                     /\ ShorterSide(f, NewFrames) < (f.b - f.a) \div balanceFraction
    /\ (f.limit = 0 /\ f.b - f.a > maxInsertion) =>
           /\ NewFrames = <<>>
           /\ StrictWeak(PdqLess, Elems(pq.x)) =>
                  Ascending(PdqLess, SubSeq(pq'.d, f.a + 1, f.b))

BudgetAct ==
    /\ BudgetStarts
    /\ (pq.at = "loop" /\ pq.frames # <<>> /\ pq'.at = "loop") =>
           BudgetIteration(Head(pq.frames))

\* C13: within one call of Sort or SortFunc on n elements the badness
\* budget starts at bits.Len(n), goes down only after an unbalanced
\* partition, is never negative, and a range whose budget is zero is finished
\* by heapsort and not partitioned again; a sort that was called returns.
C13_Budget ==
    []BudgetInv /\ [][BudgetAct]_vars /\ ((pq.at = "loop") ~> (pq.at = "done"))

\* C13 happens: the running call has a long range and no budget left.
C13_Witness ==
    /\ pq.at = "loop" /\ pq.frames # <<>>
    /\ Head(pq.frames).limit = 0
    /\ Head(pq.frames).b - Head(pq.frames).a > maxInsertion
\* The functions that panic exactly when an argument is Bad.
PanicsOnBad == call.fn \in {"lt!", "id!", "cmp!"}

\* IsSortedFunc goes from the last pair of neighbours to the first and stops
\* at a descending pair: less panics when a pair outside its domain comes
\* before that.
IsSortedPanics(less, s) ==
    \E i \in 2..Len(s) :
        /\ <<s[i], s[i - 1]>> \notin DOMAIN less
        /\ \A j \in (i + 1)..Len(s) :
               <<s[j], s[j - 1]>> \in DOMAIN less /\ ~less[<<s[j], s[j - 1]>>]

\* C14: when the less, cmp or key function panics during SortFunc, SortKey,
\* SortStableFunc, IsSortedFunc or BinarySearchFunc, the call ends with that
\* panic and returns nothing, and it ends with a panic only then; the slice
\* is a permutation of the input, and unchanged for the last two.
C14_PanicReachesCaller ==
    /\ call.op \in {"SortFunc", "SortKey", "SortStableFunc"} =>
           /\ Permutation(X, pre)
           /\ ret.out \in {0, Panic}
           /\ PanicsOnBad =>
                  ret.out = IF Bad \in Elems(pre) /\ Len(pre) >= 2 THEN Panic ELSE 0
           /\ call.fn = "distinct!" =>
                  (ret.out = Panic => \E i, j \in 1..Len(pre) : i # j /\ pre[i] = pre[j])
           /\ call.fn \in WildIds => ret.out = 0
    /\ call.op = "IsSortedFunc" =>
           /\ X = pre
           /\ ret.out = IF IsSortedPanics(PanicLessFn(call.fn), pre) THEN Panic ELSE 0
           /\ ret.out = Panic => ~ret.ok
    /\ call.op = "BinarySearchFunc" =>
           /\ X = pre
           /\ ret.out \in {0, Panic}
           /\ (call.target = Bad /\ Len(pre) >= 1) => ret.out = Panic
           /\ (call.target # Bad /\ Bad \notin Elems(pre)) => ret.out = 0
           /\ ret.out = Panic => (ret.pos = -1 /\ ~ret.found)

\* C14 happens: less panicked after SortFunc had moved elements.
C14_Witness ==
    /\ call.op = "SortFunc" /\ call.fn = "lt!"
    /\ Len(pre) >= 3
    /\ ret.out = Panic
    /\ X # pre

(* ------------- Queue (src/unnamed/part_001): SpecQueue, SpecSeq --------- *)
QProcs == 1..NProcs
QElem == 0..QMaxElem
QFns == [QElem -> QElem]
QBufs == UNION {[1..n -> QElem] : n \in 0..QInitLen}

\* A sync.RWMutex: any number of readers, or one writer.
CanRLock(m) == m.writer = 0
CanLock(m) == m.writer = 0 /\ m.readers = {}
RLock(m, p) == [m EXCEPT !.readers = @ \cup {p}]
RUnlock(m, p) == [m EXCEPT !.readers = @ \ {p}]
Lock(m, p) == [m EXCEPT !.writer = p]
Unlock(m, p) == [m EXCEPT !.writer = 0]

\* make([]T, n): n zero values.
Make(n) == [i \in 1..n |-> 0]
MapOver(fn, s) == [i \in 1..Len(s) |-> fn[s[i]]]

\* A sync.WaitGroup: Wait returns when the counter is zero.
wgWaitNever(n) == TRUE
wgWait(n) == n = 0

NoOut == [kind |-> "none"]
IdleProc ==
    [op |-> "none", pc |-> "idle", e |-> 0, fn |-> [v \in QElem |-> v],
     p |-> <<>>, n |-> 0, r |-> 0, i |-> 0, work |-> {}, buf |-> <<>>,
     out |-> NoOut]

\* The calls that write q.Buf or its elements; every call reads it.
Modifies(op) == op \in {"Push", "Pop", "Cast", "GoCast"}
Holds(p) == p \in mu.readers \/ mu.writer = p

nonQueueVars == <<sortVars, searchVars, keyVars, pdqVars, chanVars>>

\* NewQueue(elems...), and no call made yet.
InitQueue ==
    /\ SortOff /\ SearchOff /\ KeyOff /\ PdqOff /\ ChanOff
    /\ Buf \in QBufs
    /\ mu = [readers |-> {}, writer |-> 0]
    /\ proc = [p \in QProcs |-> IdleProc]
    /\ cells = <<>>
    /\ want = Buf
    /\ calls = 0
    /\ crashed = FALSE

\* Goroutine p calls a method: q.RLock() or q.Lock() is its first statement.
Enter(p, op, args, exclusive) ==
    /\ ~crashed
    /\ calls < MaxCalls
    /\ proc[p].pc \in {"idle", "done"}
    /\ IF exclusive THEN CanLock(mu) /\ mu' = Lock(mu, p)
                    ELSE CanRLock(mu) /\ mu' = RLock(mu, p)
    /\ proc' = [proc EXCEPT ![p] =
                   [IdleProc EXCEPT !.op = op, !.pc = "locked",
                                    !.e = args.e, !.fn = args.fn, !.p = args.p]]
    /\ calls' = calls + 1
    /\ UNCHANGED <<Buf, cells, want, crashed, nonQueueVars>>

Args(e, fn, p) == [e |-> e, fn |-> fn, p |-> p]
NoArgs == Args(0, IdleProc.fn, <<>>)

\* p is at pc in a call of op.
At_(p, op, pc) == ~crashed /\ proc[p].op = op /\ proc[p].pc = pc

\* The call of p returns out; its deferred unlock runs.
Leave(p, out, exclusive) ==
    /\ proc' = [proc EXCEPT ![p].pc = "done", ![p].out = out]
    /\ mu' = IF exclusive THEN Unlock(mu, p) ELSE RUnlock(mu, p)

\* The call of p panics: nothing recovers it.
Crash(p) ==
    /\ proc' = [proc EXCEPT ![p].pc = "panic"]
    /\ crashed' = TRUE
    /\ UNCHANGED <<Buf, mu, cells, want, calls, nonQueueVars>>

\* Push: under the read lock, q.Buf = append(q.Buf, e).
QueuePush(p) ==
    \E e \in QElem :
        /\ Len(Buf) < QMaxLen
        /\ Enter(p, "Push", Args(e, IdleProc.fn, <<>>), FALSE)

\* A plausible slip: the element is put in front.
PushPrepend(p) ==
    /\ At_(p, "Push", "locked")
    /\ proc' = [proc EXCEPT ![p].pc = "store", ![p].buf = <<proc[p].e>> \o Buf]
    /\ UNCHANGED <<Buf, mu, cells, want, calls, crashed, nonQueueVars>>

PushAppend(p) ==
    /\ At_(p, "Push", "locked")
    /\ proc' = [proc EXCEPT ![p].pc = "store", ![p].buf = Append(Buf, proc[p].e)]
    /\ UNCHANGED <<Buf, mu, cells, want, calls, crashed, nonQueueVars>>

PushStore(p) ==
    /\ At_(p, "Push", "store")
    /\ Buf' = proc[p].buf
    /\ want' = Append(want, proc[p].e)
    /\ Leave(p, [kind |-> "q"], FALSE)
    /\ UNCHANGED <<cells, calls, crashed, nonQueueVars>>

\* Pop: under the write lock, nil for the empty queue, else e := q.Buf[0],
\* q.Buf = q.Buf[1:], return &e.
QueuePop(p) == Enter(p, "Pop", NoArgs, TRUE)

\* A plausible slip: every Pop returns the address of one shared variable.
PopBodyShared(p) ==
    /\ At_(p, "Pop", "locked")
    /\ IF Len(Buf) = 0
       THEN /\ Leave(p, [kind |-> "nil"], TRUE)
            /\ UNCHANGED <<Buf, cells, want>>
       ELSE /\ cells' = <<Buf[1]>>
            /\ Buf' = Tail(Buf)
            /\ want' = IF want = <<>> THEN want ELSE Tail(want)
            /\ Leave(p, [kind |-> "ptr", at |-> 1], TRUE)
    /\ UNCHANGED <<calls, crashed, nonQueueVars>>

PopBody(p) ==
    /\ At_(p, "Pop", "locked")
    /\ IF Len(Buf) = 0
       THEN /\ Leave(p, [kind |-> "nil"], TRUE)
            /\ UNCHANGED <<Buf, cells, want>>
       ELSE /\ cells' = Append(cells, Buf[1])
            /\ Buf' = Tail(Buf)
            /\ want' = IF want = <<>> THEN want ELSE Tail(want)
            /\ Leave(p, [kind |-> "ptr", at |-> Len(cells) + 1], TRUE)
    /\ UNCHANGED <<calls, crashed, nonQueueVars>>

\* Map: under the read lock, buf := make([]T, len(q.Buf)), then
\* buf[i] = fn(e) over q.Buf.
QueueMap(p) == \E fn \in QFns : Enter(p, "Map", Args(0, fn, <<>>), FALSE)

MapMake(p) ==
    /\ At_(p, "Map", "locked")
    /\ proc' = [proc EXCEPT ![p].pc = "range", ![p].n = Len(Buf)]
    /\ UNCHANGED <<Buf, mu, cells, want, calls, crashed, nonQueueVars>>

MapRange(p) ==
    /\ At_(p, "Map", "range")
    /\ IF Len(Buf) > proc[p].n
       THEN Crash(p)
       ELSE /\ Leave(p, [kind |-> "new", buf |-> MapOver(proc[p].fn, Buf)], FALSE)
            /\ UNCHANGED <<Buf, cells, want, calls, crashed, nonQueueVars>>

\* Cast: under the write lock, q.Buf[i] = fn(e) over q.Buf.
QueueCast(p) == \E fn \in QFns : Enter(p, "Cast", Args(0, fn, <<>>), TRUE)

CastBody(p) ==
    /\ At_(p, "Cast", "locked")
    /\ Buf' = MapOver(proc[p].fn, Buf)
    /\ want' = MapOver(proc[p].fn, want)
    /\ Leave(p, [kind |-> "q"], TRUE)
    /\ UNCHANGED <<cells, calls, crashed, nonQueueVars>>

\* GoCast: under the write lock, wg.Add(len(q.Buf)), one goroutine for
\* each index with the element as the loop read it, wg.Wait().
QueueGoCast(p) == \E fn \in QFns : Enter(p, "GoCast", Args(0, fn, <<>>), TRUE)

GoCastAdd(p) ==
    /\ At_(p, "GoCast", "locked")
    /\ proc' = [proc EXCEPT ![p].pc = "go", ![p].n = Len(Buf),
                            ![p].r = Len(Buf), ![p].i = 0]
    /\ UNCHANGED <<Buf, mu, cells, want, calls, crashed, nonQueueVars>>

GoCastSpawn(p) ==
    /\ At_(p, "GoCast", "go")
    /\ proc[p].i < proc[p].r
    /\ proc' = [proc EXCEPT ![p].i = @ + 1,
                            ![p].work = @ \cup {[i |-> proc[p].i + 1,
                                                 t |-> Buf[proc[p].i + 1]]}]
    /\ UNCHANGED <<Buf, mu, cells, want, calls, crashed, nonQueueVars>>

GoCastWorker(p) ==
    /\ At_(p, "GoCast", "go")
    /\ \E w \in proc[p].work :
           /\ Buf' = [Buf EXCEPT ![w.i] = proc[p].fn[w.t]]
           /\ proc' = [proc EXCEPT ![p].work = @ \ {w}, ![p].n = @ - 1]
    /\ UNCHANGED <<mu, cells, want, calls, crashed, nonQueueVars>>

GoCastWait(p) ==
    /\ At_(p, "GoCast", "go")
    /\ proc[p].i = proc[p].r
    /\ wgWait(proc[p].n)
    /\ want' = MapOver(proc[p].fn, want)
    /\ Leave(p, [kind |-> "q"], TRUE)
    /\ UNCHANGED <<Buf, cells, calls, crashed, nonQueueVars>>

\* GoMap: under the read lock, wg.Add(len(q.Buf)), buf := make([]T,
\* len(q.Buf)), one goroutine for each index, wg.Wait(). No other call runs
\* during it here, so that its three reads of q.Buf see one slice.
QueueGoMap(p) == \E fn \in QFns : Enter(p, "GoMap", Args(0, fn, <<>>), FALSE)

GoMapAdd(p) ==
    /\ At_(p, "GoMap", "locked")
    /\ proc' = [proc EXCEPT ![p].pc = "go", ![p].n = Len(Buf),
                            ![p].buf = Make(Len(Buf)),
                            ![p].r = Len(Buf), ![p].i = 0]
    /\ UNCHANGED <<Buf, mu, cells, want, calls, crashed, nonQueueVars>>

GoMapSpawn(p) ==
    /\ At_(p, "GoMap", "go")
    /\ proc[p].i < proc[p].r
    /\ proc' = [proc EXCEPT ![p].i = @ + 1,
                            ![p].work = @ \cup {[i |-> proc[p].i + 1,
                                                 t |-> Buf[proc[p].i + 1]]}]
    /\ UNCHANGED <<Buf, mu, cells, want, calls, crashed, nonQueueVars>>

GoMapWorker(p) ==
    /\ At_(p, "GoMap", "go")
    /\ \E w \in proc[p].work :
           proc' = [proc EXCEPT ![p].work = @ \ {w}, ![p].n = @ - 1,
                                ![p].buf = [@ EXCEPT ![w.i] = proc[p].fn[w.t]]]
    /\ UNCHANGED <<Buf, mu, cells, want, calls, crashed, nonQueueVars>>

GoMapWait(p) ==
    /\ At_(p, "GoMap", "go")
    /\ proc[p].i = proc[p].r
    /\ wgWait(proc[p].n)
    /\ Leave(p, [kind |-> "new", buf |-> proc[p].buf], FALSE)
    /\ UNCHANGED <<Buf, cells, want, calls, crashed, nonQueueVars>>

\* Do: under the read lock, fn(e) over q.Buf; fn returns nothing.
QueueDo(p) == Enter(p, "Do", NoArgs, FALSE)

DoBody(p) ==
    /\ At_(p, "Do", "locked")
    /\ Leave(p, [kind |-> "q"], FALSE)
    /\ UNCHANGED <<Buf, cells, want, calls, crashed, nonQueueVars>>

\* Eq: under the read locks of q and of p, false if the lengths differ, else
\* equals(e, p.Buf[i]) over q.Buf. p is a queue that no other goroutine uses.
QueueEq(p) == \E other \in QBufs : Enter(p, "Eq", Args(0, IdleProc.fn, other), FALSE)

EqLen(p) ==
    /\ At_(p, "Eq", "locked")
    /\ IF Len(Buf) # Len(proc[p].p)
       THEN Leave(p, [kind |-> "bool", b |-> FALSE], FALSE)
       ELSE proc' = [proc EXCEPT ![p].pc = "range"] /\ UNCHANGED mu
    /\ UNCHANGED <<Buf, cells, want, calls, crashed, nonQueueVars>>

EqRange(p) ==
    /\ At_(p, "Eq", "range")
    /\ LET other == proc[p].p
       IN  IF \E i \in 1..Len(other) : Buf[i] # other[i]
           THEN /\ Leave(p, [kind |-> "bool", b |-> FALSE], FALSE)
                /\ UNCHANGED <<Buf, cells, want, calls, crashed, nonQueueVars>>
           ELSE IF Len(Buf) > Len(other)
           THEN Crash(p)
           ELSE /\ Leave(p, [kind |-> "bool", b |-> TRUE], FALSE)
                /\ UNCHANGED <<Buf, cells, want, calls, crashed, nonQueueVars>>

\* Clone: under the read lock, buf := make([]T, len(q.Buf)),
\* n := copy(buf, q.Buf), panic if n != len(q.Buf).
QueueClone(p) == Enter(p, "Clone", NoArgs, FALSE)

CloneMake(p) ==
    /\ At_(p, "Clone", "locked")
    /\ proc' = [proc EXCEPT ![p].pc = "copy", ![p].buf = Make(Len(Buf))]
    /\ UNCHANGED <<Buf, mu, cells, want, calls, crashed, nonQueueVars>>

CloneCopy(p) ==
    /\ At_(p, "Clone", "copy")
    /\ LET n == IF Len(Buf) < Len(proc[p].buf) THEN Len(Buf) ELSE Len(proc[p].buf)
       IN  proc' = [proc EXCEPT ![p].pc = "check", ![p].n = n,
                       ![p].buf = [i \in 1..Len(@) |-> IF i <= n THEN Buf[i] ELSE @[i]]]
    /\ UNCHANGED <<Buf, mu, cells, want, calls, crashed, nonQueueVars>>

CloneCheck(p) ==
    /\ At_(p, "Clone", "check")
    /\ IF proc[p].n # Len(Buf)
       THEN Crash(p)
       ELSE /\ Leave(p, [kind |-> "new", buf |-> proc[p].buf], FALSE)
            /\ UNCHANGED <<Buf, cells, want, calls, crashed, nonQueueVars>>

\* The goroutines of the program call Push, Pop, Cast, GoCast, Map, Do, Eq
\* and Clone on one queue, in any order and at any time.
NextQueue ==
    \E p \in QProcs :
        \/ QueuePush(p) \/ PushAppend(p) \/ PushStore(p)
        \/ QueuePop(p) \/ PopBody(p)
        \/ QueueMap(p) \/ MapMake(p) \/ MapRange(p)
        \/ QueueCast(p) \/ CastBody(p)
        \/ QueueGoCast(p) \/ GoCastAdd(p) \/ GoCastSpawn(p)
        \/ GoCastWorker(p) \/ GoCastWait(p)
        \/ QueueDo(p) \/ DoBody(p)
        \/ QueueEq(p) \/ EqLen(p) \/ EqRange(p)
        \/ QueueClone(p) \/ CloneMake(p) \/ CloneCopy(p) \/ CloneCheck(p)

SpecQueue == InitQueue /\ [][NextQueue]_vars

\* One goroutine makes one call after the other; the goroutines that GoMap
\* and GoCast start run in any order.
Client == 1
NextSeq ==
    \/ QueuePush(Client) \/ PushAppend(Client) \/ PushStore(Client)
    \/ QueuePop(Client) \/ PopBody(Client)
    \/ QueueMap(Client) \/ MapMake(Client) \/ MapRange(Client)
    \/ QueueGoMap(Client) \/ GoMapAdd(Client) \/ GoMapSpawn(Client)
    \/ GoMapWorker(Client) \/ GoMapWait(Client)
    \/ QueueCast(Client) \/ CastBody(Client)
    \/ QueueGoCast(Client) \/ GoCastAdd(Client) \/ GoCastSpawn(Client)
    \/ GoCastWorker(Client) \/ GoCastWait(Client)

SpecSeq == InitQueue /\ [][NextSeq]_vars

(* --------- Lazify and Tee (src/chans/chans.go): SpecLazify, SpecTee ----- *)
ChElem == 0..ChMaxElem
ChInputs == UNION {[1..n -> ChElem] : n \in 0..ChMaxLen}

\* make(chan T, n): open and empty.
MakeChan(n) == [buf |-> <<>>, cap |-> n, closed |-> FALSE]
\* A goroutine that receives from a channel again and again: it is at work,
\* or blocked in the receive, or was told that the channel is closed.
NewReceiver == [pc |-> "busy", got |-> <<>>]

nonChanVars == <<sortVars, searchVars, keyVars, pdqVars, queueVars>>

\* A send of v on channel c, received by the goroutine rcv[c]: on an
\* unbuffered channel it needs the receiver blocked in its receive and hands
\* the value over; on a buffered one it needs room in the buffer.
CanSend(c) ==
    IF ch[c].cap = 0 THEN rcv[c].pc = "recv" ELSE Len(ch[c].buf) < ch[c].cap

Send(c, v) ==
    /\ CanSend(c)
    /\ IF ch[c].cap = 0
       THEN /\ rcv' = [rcv EXCEPT ![c].pc = "busy", ![c].got = Append(@, v)]
            /\ UNCHANGED ch
       ELSE /\ ch' = [ch EXCEPT ![c].buf = Append(@, v)]
            /\ UNCHANGED rcv

\* The receiver of c starts a receive.
Receive(c) ==
    /\ rcv[c].pc = "busy"
    /\ rcv' = [rcv EXCEPT ![c].pc = "recv"]
    /\ UNCHANGED <<feed, ch, gor, nonChanVars>>

\* A blocked receive takes the first value of the buffer.
ReceiveBuffered(c) ==
    /\ rcv[c].pc = "recv"
    /\ ch[c].buf # <<>>
    /\ rcv' = [rcv EXCEPT ![c].pc = "busy", ![c].got = Append(@, Head(ch[c].buf))]
    /\ ch' = [ch EXCEPT ![c].buf = Tail(@)]
    /\ UNCHANGED <<feed, gor, nonChanVars>>

\* A blocked receive on a closed and empty channel reports it closed.
ReceiveClosed(c) ==
    /\ rcv[c].pc = "recv"
    /\ ch[c].closed /\ ch[c].buf = <<>>
    /\ rcv' = [rcv EXCEPT ![c].pc = "end"]
    /\ UNCHANGED <<feed, ch, gor, nonChanVars>>

\* Lazify(arg): out := make(chan T) and a goroutine; i elements are sent.
InitLazify ==
    /\ SortOff /\ SearchOff /\ KeyOff /\ PdqOff /\ QueueOff
    /\ feed \in ChInputs
    /\ ch = [c \in {"out"} |-> MakeChan(0)]
    /\ gor = [i |-> 0]
    /\ rcv = [c \in {"out"} |-> NewReceiver]

\* A plausible slip: close(out) is not deferred to the end of the loop.
LazifyCloseEarly ==
    /\ ~ch["out"].closed
    /\ ch' = [ch EXCEPT !["out"].closed = TRUE]
    /\ UNCHANGED <<feed, gor, rcv, nonChanVars>>

\* for _, e := range arg { out <- e }
LazifySend ==
    /\ gor.i < Len(feed)
    /\ ~ch["out"].closed
    /\ Send("out", feed[gor.i + 1])
    /\ gor' = [gor EXCEPT !.i = @ + 1]
    /\ UNCHANGED <<feed, nonChanVars>>

\* defer close(out)
LazifyClose ==
    /\ gor.i = Len(feed)
    /\ ~ch["out"].closed
    /\ ch' = [ch EXCEPT !["out"].closed = TRUE]
    /\ UNCHANGED <<feed, gor, rcv, nonChanVars>>

NextLazify ==
    \/ LazifySend
    \/ LazifyClose
    \/ Receive("out")
    \/ ReceiveClosed("out")

\* The scheduler runs a goroutine that can run; the caller keeps receiving.
SpecLazify == InitLazify /\ [][NextLazify]_vars /\ WF_vars(NextLazify)

\* Tee(src): src has capacity 0..ChMaxCap and a goroutine that sends the values of feed on it
\* and closes it; one and two have the capacity of src. The goroutine of Tee
\* is in its range over src, or in wg.Wait(), or in its deferred closes.
InitTee ==
    /\ SortOff /\ SearchOff /\ KeyOff /\ PdqOff /\ QueueOff
    /\ feed \in ChInputs
    /\ \E n \in 0..ChMaxCap : ch = [c \in {"src", "one", "two"} |-> MakeChan(n)]
    /\ gor = [i |-> 0, pc |-> "range", e |-> 0, taken |-> 0, pending |-> {}]
    /\ rcv = [c \in {"one", "two"} |-> NewReceiver]

\* wg.Add(2), and the two goroutines that send.
TeeGo(e) == [gor EXCEPT !.pc = "wait", !.e = e, !.taken = @ + 1,
                        !.pending = {"one", "two"}]

\* The source sends its next value: to the range of Tee if src is
\* unbuffered, else into the buffer of src.
SrcSend ==
    /\ gor.i < Len(feed)
    /\ IF ch["src"].cap = 0
       THEN /\ gor.pc = "range"
            /\ gor' = [TeeGo(feed[gor.i + 1]) EXCEPT !.i = @ + 1]
            /\ UNCHANGED ch
       ELSE /\ Len(ch["src"].buf) < ch["src"].cap
            /\ ch' = [ch EXCEPT !["src"].buf = Append(@, feed[gor.i + 1])]
            /\ gor' = [gor EXCEPT !.i = @ + 1]
    /\ UNCHANGED <<feed, rcv, nonChanVars>>

SrcClose ==
    /\ gor.i = Len(feed)
    /\ ~ch["src"].closed
    /\ ch' = [ch EXCEPT !["src"].closed = TRUE]
    /\ UNCHANGED <<feed, gor, rcv, nonChanVars>>

\* for e := range src: the next value of the buffer of src.
TeeRange ==
    /\ gor.pc = "range"
    /\ ch["src"].buf # <<>>
    /\ gor' = TeeGo(Head(ch["src"].buf))
    /\ ch' = [ch EXCEPT !["src"].buf = Tail(@)]
    /\ UNCHANGED <<feed, rcv, nonChanVars>>

\* go func(t T) { defer wg.Done(); one <- e }(e), and the same for two: the
\* value sent is that of the loop variable e.
TeeSend(c) ==
    /\ gor.pc = "wait"
    /\ c \in gor.pending
    /\ Send(c, gor.e)
    /\ gor' = [gor EXCEPT !.pending = @ \ {c}]
    /\ UNCHANGED <<feed, nonChanVars>>

teeWaitNever(pending) == TRUE
\* wg.Wait()
teeWait(pending) == pending = {}

TeeWait ==
    /\ gor.pc = "wait"
    /\ teeWait(gor.pending)
    /\ gor' = [gor EXCEPT !.pc = "range"]
    /\ UNCHANGED <<feed, ch, rcv, nonChanVars>>

\* src is closed and empty: the range ends, the deferred closes run, the
\* last deferred first.
TeeEnd ==
    /\ gor.pc = "range"
    /\ ch["src"].closed /\ ch["src"].buf = <<>>
    /\ gor' = [gor EXCEPT !.pc = "close"]
    /\ ch' = [ch EXCEPT !["two"].closed = TRUE]
    /\ UNCHANGED <<feed, rcv, nonChanVars>>

TeeClose ==
    /\ gor.pc = "close"
    /\ gor' = [gor EXCEPT !.pc = "end"]
    /\ ch' = [ch EXCEPT !["one"].closed = TRUE]
    /\ UNCHANGED <<feed, rcv, nonChanVars>>

NextTee ==
    \/ SrcSend
    \/ SrcClose
    \/ TeeRange
    \/ TeeSend("one")
    \/ TeeSend("two")
    \/ TeeWait
    \/ TeeEnd
    \/ TeeClose
    \/ \E c \in {"one", "two"} : Receive(c) \/ ReceiveBuffered(c) \/ ReceiveClosed(c)

\* The scheduler runs a goroutine that can run; the callers keep receiving.
SpecTee == InitTee /\ [][NextTee]_vars /\ WF_vars(NextTee)

\* No call holds the lock of q.
Quiet == ~crashed /\ \A p \in QProcs : ~Holds(p)

\* A call that writes q.Buf holds the lock alone.
QueueExcludes ==
    \A p, r \in QProcs :
        (p # r /\ Holds(p) /\ Holds(r)) =>
            (~Modifies(proc[p].op) /\ ~Modifies(proc[r].op))

\* Between calls Buf is what the calls that ended leave one after the other:
\* every element pushed and not popped, once.
QueueKeepsAll == Quiet => Buf = want

\* C15: Queue is thread-safe: a call that modifies Buf is never in its
\* critical section together with another call on the queue, and when the
\* concurrent calls have ended Buf holds exactly the elements pushed and not
\* popped.
C15_ThreadSafe == QueueExcludes /\ QueueKeepsAll

\* The call of op by the one caller returns in this step.
Returns(op) ==
    /\ proc[Client].op = op
    /\ proc[Client].pc \notin {"idle", "done"}
    /\ proc'[Client].pc = "done"

FifoStep ==
    /\ Returns("Push") => Buf' = Append(Buf, proc[Client].e)
    /\ (Returns("Pop") /\ Buf # <<>>) =>
           /\ Buf' = Tail(Buf)
           /\ proc'[Client].out.kind = "ptr"
           /\ cells'[proc'[Client].out.at] = Head(Buf)

\* C16: Queue is first-in first-out: in every sequence of Push and Pop calls
\* Push makes its element the last of Buf behind all the others, and Pop on a
\* non-empty queue removes and returns the first element of Buf, which is the
\* one pushed earliest, and leaves the others in their order.
C16_Fifo == [][FifoStep]_vars

\* C16 happens: NewQueue with QInitLen elements, a Push, and a Pop that
\* returned the oldest element and not the one pushed.
C16_Witness ==
    /\ proc[Client].op = "Pop" /\ proc[Client].pc = "done"
    /\ proc[Client].out.kind = "ptr"
    /\ calls = 2
    /\ Len(Buf) = QInitLen
    /\ cells[proc[Client].out.at] # Buf[Len(Buf)]

\* The one caller makes a call in this step.
Calls == proc[Client].pc \in {"idle", "done"} /\ proc'[Client].pc = "locked"

\* Every goroutine of the call has been started and has finished.
WorkersDone == proc[Client].i = Len(want) /\ proc[Client].work = {}

\* want is Buf as it was when the call was made.
GoStep ==
    /\ Calls => want = Buf
    /\ proc[Client].op \in {"Map", "GoMap"} => Buf' = Buf
    /\ Returns("Map") =>
           proc'[Client].out = [kind |-> "new", buf |-> MapOver(proc[Client].fn, want)]
    /\ Returns("GoMap") =>
           /\ proc'[Client].out = [kind |-> "new", buf |-> MapOver(proc[Client].fn, want)]
           /\ WorkersDone
    /\ Returns("Cast") => Buf' = MapOver(proc[Client].fn, want)
    /\ Returns("GoCast") =>
           /\ Buf' = MapOver(proc[Client].fn, want)
           /\ WorkersDone

\* C17: whatever the order in which the goroutines of the call run, GoMap(fn)
\* returns a new queue with fn of every element of q in its place, as Map(fn)
\* does, and leaves q as it was; GoCast(fn) leaves fn of every element of q
\* in its place, as Cast(fn) does; both return after every goroutine has
\* finished.
C17_GoMapGoCast == [][GoStep]_vars

\* C17 happens: GoCast has returned from a queue of two or more elements, with
\* an fn that changes every value.
C17_Witness ==
    /\ proc[Client].op = "GoCast" /\ proc[Client].pc = "done"
    /\ Len(Buf) >= 2
    /\ \A v \in QElem : proc[Client].fn[v] # v

\* The call of Pop by p returns in this step.
PopReturns(p) == At_(p, "Pop", "locked") /\ proc'[p].pc = "done"

PopStep ==
    /\ \A p \in QProcs :
           PopReturns(p) =>
               IF Buf = <<>>
               THEN proc'[p].out = [kind |-> "nil"] /\ Buf' = <<>>
               ELSE /\ proc'[p].out.kind = "ptr"
                    /\ proc'[p].out.at \notin 1..Len(cells)
                    /\ cells'[proc'[p].out.at] = Buf[1]
                    /\ Len(Buf') = Len(Buf) - 1
    /\ \A k \in 1..Len(cells) : k \in 1..Len(cells') /\ cells'[k] = cells[k]

\* C18: Pop on an empty queue returns nil and leaves the queue empty; Pop on
\* a non-empty queue returns a pointer to a new variable that holds the first
\* element and shortens the queue by one; no later step of any call changes
\* the value that a returned pointer points to.
C18_Pop == [][PopStep]_vars

\* C18 happens: Pop returned a pointer to a 0 and then Cast made every element
\* of the queue 1.
C18_Witness ==
    \E p, r \in QProcs :
        /\ proc[p].op = "Pop" /\ proc[p].pc = "done" /\ proc[p].out.kind = "ptr"
        /\ proc[r].op = "Cast" /\ proc[r].pc = "done"
        /\ \A v \in QElem : proc[r].fn[v] = 1
        /\ calls = 2
        /\ Buf # <<>>
        /\ cells[proc[p].out.at] = 0

\* What the receiver of the channel that Lazify returned has got so far is
\* the slice up to the element sent last; the channel is closed only behind
\* the last element, and a receive reports it closed only behind all of them.
LazifyInOrder ==
    /\ rcv["out"].got = SubSeq(feed, 1, gor.i)
    /\ ch["out"].closed => gor.i = Len(feed)
    /\ rcv["out"].pc = "end" => rcv["out"].got = feed

\* C19: Lazify(s) delivers on the channel it returns exactly the elements of
\* s, each once and in index order, and closes the channel behind the last
\* one: a caller that keeps receiving gets them all, and its next receive
\* reports the channel closed.
C19_Lazify == []LazifyInOrder /\ <>(rcv["out"].pc = "end")

\* C19 happens: the receive behind the last of two or more elements, not all
\* the same, reported the channel closed.
C19_Witness ==
    /\ DOMAIN rcv = {"out"}
    /\ rcv["out"].pc = "end"
    /\ Len(feed) >= 2
    /\ feed[1] # feed[2]

\* The values that have been sent on the output c of Tee: those received
\* from it and those in its buffer.
TeeSent(c) == rcv[c].got \o ch[c].buf

\* The number of values whose send on c has been done: all that Tee took from
\* src, but for the last one while its goroutine has not sent.
TeeDue(c) == IF c \in gor.pending THEN gor.taken - 1 ELSE gor.taken

TeeInOrder ==
    \A c \in {"one", "two"} :
        /\ TeeSent(c) = SubSeq(feed, 1, TeeDue(c))
        /\ ch[c].closed =>
               /\ ch["src"].closed /\ ch["src"].buf = <<>>
               /\ gor.taken = Len(feed)
               /\ TeeSent(c) = feed
        /\ rcv[c].pc = "end" => rcv[c].got = feed
        /\ ch["src"].cap = 0 => Len(rcv[c].got) >= gor.taken - 1

\* C20: each of the two channels of Tee(src) delivers every value received
\* from src, once and in the order of src, and both are closed after src is
\* closed and drained, so that callers that keep receiving get every value and
\* then the report that the channel is closed; with unbuffered channels a
\* value of src is offered only when both outputs have taken the one before.
C20_Tee == []TeeInOrder /\ <>(\A c \in {"one", "two"} : rcv[c].pc = "end")

\* C20 happens: with unbuffered channels both receivers got two or more
\* values, not all the same, and the report that their channel is closed.
C20_Witness ==
    /\ DOMAIN rcv = {"one", "two"}
    /\ ch["src"].cap = 0
    /\ \A c \in {"one", "two"} : rcv[c].pc = "end"
    /\ Len(feed) >= 2
    /\ feed[1] # feed[2]

(* ------------------ Chain (src/chans/chans.go): SpecChain --------------- *)
\* The k-th argument delivers m values; <<k, j>> is its j-th one.
ArgFeed(k, m) == [j \in 1..m |-> <<k, j>>]

RECURSIVE MaxCap(_, _)
\* capacity = max(cap(arg), capacity) over the first n arguments.
MaxCap(caps, n) ==
    IF n = 0 THEN 0
    ELSE IF caps[n] > MaxCap(caps, n - 1) THEN caps[n] ELSE MaxCap(caps, n - 1)

RECURSIVE SumTo(_, _)
SumTo(lens, n) == IF n = 0 THEN 0 ELSE lens[n] + SumTo(lens, n - 1)

\* Chain(args...): out := make(chan T, capacity), wg.Add(len(args)), and the
\* goroutine that starts one goroutine for each argument. Every argument has
\* a sender that closes it behind its last value.
InitChain ==
    /\ SortOff /\ SearchOff /\ KeyOff /\ PdqOff /\ QueueOff
    /\ \E n \in 0..ChainArgs :
           \E lens \in [1..n -> 0..ChainLen], caps \in [1..n -> 0..ChMaxCap] :
               /\ SumTo(lens, n) <= ChainLen
               /\ feed = [k \in 1..n |-> ArgFeed(k, lens[k])]
               /\ ch = [out |-> MakeChan(MaxCap(caps, n)),
                        args |-> [k \in 1..n |-> MakeChan(caps[k])]]
               /\ gor = [i |-> 0, n |-> n,
                         idx |-> [k \in 1..n |-> 0],
                         w |-> [k \in 1..n |-> [pc |-> "new", e |-> <<0, 0>>]]]
    /\ rcv = [c \in {"out"} |-> NewReceiver]

\* The sender of argument k sends its next value: to the range of its
\* goroutine if the channel is unbuffered, else into the buffer.
ArgSend(k) ==
    /\ k \in 1..Len(feed)
    /\ gor.idx[k] < Len(feed[k])
    /\ IF ch.args[k].cap = 0
       THEN /\ gor.w[k].pc = "range"
            /\ gor' = [gor EXCEPT !.idx[k] = @ + 1,
                                  !.w[k] = [pc |-> "send", e |-> feed[k][gor.idx[k] + 1]]]
            /\ UNCHANGED ch
       ELSE /\ Len(ch.args[k].buf) < ch.args[k].cap
            /\ ch' = [ch EXCEPT !.args[k].buf = Append(@, feed[k][gor.idx[k] + 1])]
            /\ gor' = [gor EXCEPT !.idx[k] = @ + 1]
    /\ UNCHANGED <<feed, rcv, nonChanVars>>

ArgClose(k) ==
    /\ k \in 1..Len(feed)
    /\ gor.idx[k] = Len(feed[k])
    /\ ~ch.args[k].closed
    /\ ch' = [ch EXCEPT !.args[k].closed = TRUE]
    /\ UNCHANGED <<feed, gor, rcv, nonChanVars>>

\* for _, channel := range args { go func(c chanT) {...}(channel) }
ChainGo ==
    /\ gor.i < Len(feed)
    /\ gor' = [gor EXCEPT !.i = @ + 1, !.w[gor.i + 1].pc = "range"]
    /\ UNCHANGED <<feed, ch, rcv, nonChanVars>>

\* for e := range c: the next value of the buffer of c.
ChainRange(k) ==
    /\ k \in 1..Len(feed)
    /\ gor.w[k].pc = "range"
    /\ ch.args[k].buf # <<>>
    /\ gor' = [gor EXCEPT !.w[k] = [pc |-> "send", e |-> Head(ch.args[k].buf)]]
    /\ ch' = [ch EXCEPT !.args[k].buf = Tail(@)]
    /\ UNCHANGED <<feed, rcv, nonChanVars>>

\* out <- e
ChainSend(k) ==
    /\ k \in 1..Len(feed)
    /\ gor.w[k].pc = "send"
    /\ ~ch.out.closed
    /\ Send("out", gor.w[k].e)
    /\ gor' = [gor EXCEPT !.w[k].pc = "range"]
    /\ UNCHANGED <<feed, nonChanVars>>

\* c is closed and empty: the range ends; defer wg.Done().
ChainDone(k) ==
    /\ k \in 1..Len(feed)
    /\ gor.w[k].pc = "range"
    /\ ch.args[k].closed /\ ch.args[k].buf = <<>>
    /\ gor' = [gor EXCEPT !.w[k].pc = "done", !.n = @ - 1]
    /\ UNCHANGED <<feed, ch, rcv, nonChanVars>>

\* A plausible slip: close(out) without wg.Wait().
ChainCloseEarly ==
    /\ gor.i = Len(feed)
    /\ ~ch.out.closed
    /\ ch' = [ch EXCEPT !.out.closed = TRUE]
    /\ UNCHANGED <<feed, gor, rcv, nonChanVars>>

\* wg.Wait(); defer close(out)
ChainClose ==
    /\ gor.i = Len(feed)
    /\ gor.n = 0
    /\ ~ch.out.closed
    /\ ch' = [ch EXCEPT !.out.closed = TRUE]
    /\ UNCHANGED <<feed, gor, rcv, nonChanVars>>

NextChain ==
    \/ \E k \in 1..ChainArgs :
           ArgSend(k) \/ ArgClose(k) \/ ChainRange(k) \/ ChainSend(k) \/ ChainDone(k)
    \/ ChainGo
    \/ ChainClose
    \/ Receive("out")
    \/ ReceiveBuffered("out")
    \/ ReceiveClosed("out")

\* The scheduler runs a goroutine that can run; the senders of the arguments
\* send and close, the caller keeps receiving.
SpecChain == InitChain /\ [][NextChain]_vars /\ WF_vars(NextChain)

\* The values of argument k among those of s, in the order of s.
FromArg(s, k) == SelectSeq(s, LAMBDA v : v[1] = k)

\* The number of values of argument k that its goroutine has sent on out.
ChainDue(k) ==
    LET taken == gor.idx[k] - Len(ch.args[k].buf)
    IN  IF gor.w[k].pc = "send" THEN taken - 1 ELSE taken

ChainSent == rcv["out"].got \o ch.out.buf

ChainInOrder ==
    /\ \A k \in 1..Len(feed) : FromArg(ChainSent, k) = SubSeq(feed[k], 1, ChainDue(k))
    /\ \A j \in 1..Len(ChainSent) : ChainSent[j][1] \in 1..Len(feed)
    /\ ch.out.cap >= 0
    /\ \A k \in 1..Len(feed) : ch.out.cap >= ch.args[k].cap
    /\ Len(feed) > 0 => \E k \in 1..Len(feed) : ch.out.cap = ch.args[k].cap
    /\ Len(feed) = 0 => ch.out.cap = 0
    /\ ch.out.closed =>
           \A k \in 1..Len(feed) :
               /\ ch.args[k].closed /\ ch.args[k].buf = <<>>
               /\ FromArg(ChainSent, k) = feed[k]
    /\ rcv["out"].pc = "end" =>
           \A k \in 1..Len(feed) : FromArg(rcv["out"].got, k) = feed[k]

\* C21: the channel of Chain(c1, ..., cn) delivers exactly the values that
\* the arguments deliver, each once and those of one argument in their order;
\* it is closed only when every argument is closed and drained, and then it
\* is closed (at once without arguments); its capacity is the largest of the
\* capacities of the arguments.
C21_Chain == []ChainInOrder /\ <>(rcv["out"].pc = "end")

\* C21 happens: two arguments of different capacity, the caller got the value
\* of the second before that of the first, and then the report that the
\* channel is closed.
C21_Witness ==
    /\ DOMAIN ch = {"out", "args"}
    /\ Len(feed) = 2
    /\ ch.args[1].cap # ch.args[2].cap
    /\ Len(feed[1]) = 1 /\ Len(feed[2]) = 1
    /\ rcv["out"].pc = "end"
    /\ rcv["out"].got = <<<<2, 1>>, <<1, 1>>>>

(* ----------------- Pusher (src/chans/chans.go): SpecPusher -------------- *)
NoError == "nil"

\* put := Pusher(dst): closed := false. The caller calls put with the values
\* of feed, one call after the other; dst has a receiver and is closed by
\* its owner at any moment. res is the result of the call, out and closed
\* are the variable of the call and the variable of Pusher.
InitPusher ==
    /\ SortOff /\ SearchOff /\ KeyOff /\ PdqOff /\ QueueOff
    /\ feed \in ChInputs
    /\ \E n \in 0..ChMaxCap : ch = [c \in {"dst"} |-> MakeChan(n)]
    /\ gor = [pc |-> "idle", i |-> 0, closed |-> FALSE, out |-> NoError,
              res |-> NoError, onClosed |-> FALSE]
    /\ rcv = [c \in {"dst"} |-> NewReceiver]

\* put(arg): var out error; the result is the zero value until a return
\* statement sets it.
PusherCall ==
    /\ gor.pc = "idle"
    /\ gor.i < Len(feed)
    /\ gor' = [gor EXCEPT !.pc = "check", !.i = @ + 1, !.out = NoError,
                          !.res = NoError, !.onClosed = ch["dst"].closed]
    /\ UNCHANGED <<feed, ch, rcv, nonChanVars>>

\* if closed { return ErrWriteOnEmpty }; the deferred recover finds nothing.
PusherCheck ==
    /\ gor.pc = "check"
    /\ gor' = IF gor.closed
              THEN [gor EXCEPT !.pc = "idle", !.res = "ErrWriteOnEmpty"]
              ELSE [gor EXCEPT !.pc = "send"]
    /\ UNCHANGED <<feed, ch, rcv, nonChanVars>>

\* dst <- arg; return out
PusherSend ==
    /\ gor.pc = "send"
    /\ ~ch["dst"].closed
    /\ Send("dst", feed[gor.i])
    /\ gor' = [gor EXCEPT !.pc = "idle", !.res = gor.out]
    /\ UNCHANGED <<feed, nonChanVars>>

\* dst <- arg on the closed channel panics; the deferred function recovers,
\* sets the variables out and closed, and the call returns its result as it
\* is: no return statement has set it.
PusherRecover ==
    /\ gor.pc = "send"
    /\ ch["dst"].closed
    /\ gor' = [gor EXCEPT !.pc = "idle", !.out = "send on closed channel",
                          !.closed = TRUE]
    /\ UNCHANGED <<feed, ch, rcv, nonChanVars>>

\* The owner of dst closes it.
DstClose ==
    /\ ~ch["dst"].closed
    /\ ch' = [ch EXCEPT !["dst"].closed = TRUE]
    /\ UNCHANGED <<feed, gor, rcv, nonChanVars>>

NextPusher ==
    \/ PusherCall
    \/ PusherCheck
    \/ PusherSend
    \/ PusherRecover
    \/ DstClose
    \/ Receive("dst")
    \/ ReceiveBuffered("dst")
    \/ ReceiveClosed("dst")

SpecPusher == InitPusher /\ [][NextPusher]_vars

\* C22: a call of the function that Pusher(dst) returned sends its argument
\* and returns nil while dst is open, and returns an error, never nil, when
\* it is made on the closed dst; no panic escapes.
C22_Pusher ==
    (gor.pc = "idle" /\ gor.i > 0) =>
        /\ gor.onClosed => gor.res # NoError
        /\ ~ch["dst"].closed => gor.res = NoError


(* ------- Compact, CompactFunc, CompactHash, FilterPred: SpecCompact ----- *)
\* CompactHash(selfHash, src): out := make(chan T, cap(src)) is the channel
\* "made"; the goroutine of CompactHash has not run yet, the caller has not
\* returned yet. src has a goroutine that sends the values of feed on it and
\* closes it. "filt" is the channel that FilterPred makes, f its goroutine.
InitCompact ==
    /\ SortOff /\ SearchOff /\ KeyOff /\ PdqOff /\ QueueOff
    /\ feed \in ChInputs
    /\ \E n \in 0..ChMaxCap : ch = [c \in {"src", "made", "filt"} |-> MakeChan(n)]
    /\ gor = [i |-> 0, out |-> "made", ret |-> "none",
              f |-> [pc |-> "new", e |-> 0], marked |-> {}]
    /\ rcv = [c \in {"made", "filt"} |-> NewReceiver]

\* go func() { ...; out = FilterPred(pred, src) }(): the goroutine writes
\* the variable out that the caller reads in its return statement, without
\* synchronisation; FilterPred starts its goroutine.
CompactAssign ==
    /\ gor.f.pc = "new"
    /\ gor' = [gor EXCEPT !.out = "filt", !.f.pc = "range"]
    /\ UNCHANGED <<feed, ch, rcv, nonChanVars>>

\* return out: the caller gets the channel that the variable holds now.
CompactReturn ==
    /\ gor.ret = "none"
    /\ gor' = [gor EXCEPT !.ret = gor.out]
    /\ UNCHANGED <<feed, ch, rcv, nonChanVars>>

\* The source sends its next value: to the range of FilterPred if src is
\* unbuffered, else into the buffer of src.
CompactSrcSend ==
    /\ gor.i < Len(feed)
    /\ IF ch["src"].cap = 0
       THEN /\ gor.f.pc = "range"
            /\ gor' = [gor EXCEPT !.i = @ + 1, !.f.pc = "pred",
                                  !.f.e = feed[gor.i + 1]]
            /\ UNCHANGED ch
       ELSE /\ Len(ch["src"].buf) < ch["src"].cap
            /\ ch' = [ch EXCEPT !["src"].buf = Append(@, feed[gor.i + 1])]
            /\ gor' = [gor EXCEPT !.i = @ + 1]
    /\ UNCHANGED <<feed, rcv, nonChanVars>>

CompactSrcClose ==
    /\ gor.i = Len(feed)
    /\ ~ch["src"].closed
    /\ ch' = [ch EXCEPT !["src"].closed = TRUE]
    /\ UNCHANGED <<feed, gor, rcv, nonChanVars>>

\* for e := range src: the next value of the buffer of src.
FilterRange ==
    /\ gor.f.pc = "range"
    /\ ch["src"].buf # <<>>
    /\ gor' = [gor EXCEPT !.f.pc = "pred", !.f.e = Head(ch["src"].buf)]
    /\ ch' = [ch EXCEPT !["src"].buf = Tail(@)]
    /\ UNCHANGED <<feed, rcv, nonChanVars>>

\* pred of CompactHash: true if the hash of the argument is marked already,
\* else it marks it and is false.
pred(marked, e) == e \in marked

\* if pred(e) { out <- e }: the call of pred.
FilterCall ==
    /\ gor.f.pc = "pred"
    /\ gor' = [gor EXCEPT !.f.pc = IF pred(gor.marked, gor.f.e) THEN "send" ELSE "range",
                          !.marked = @ \cup {gor.f.e}]
    /\ UNCHANGED <<feed, ch, rcv, nonChanVars>>

\* out <- e on the channel of FilterPred.
FilterSend ==
    /\ gor.f.pc = "send"
    /\ Send("filt", gor.f.e)
    /\ gor' = [gor EXCEPT !.f.pc = "range"]
    /\ UNCHANGED <<feed, nonChanVars>>

\* defer close(out) of FilterPred, when the range over src ends.
FilterClose ==
    /\ gor.f.pc = "range"
    /\ ch["src"].closed /\ ch["src"].buf = <<>>
    /\ ch' = [ch EXCEPT !["filt"].closed = TRUE]
    /\ gor' = [gor EXCEPT !.f.pc = "done"]
    /\ UNCHANGED <<feed, rcv, nonChanVars>>

\* The caller receives from the channel it got, again and again. Nothing is
\* ever sent on "made" and nothing closes it.
ConsumeMade == gor.ret = "made" /\ Receive("made")
ConsumeFilt == gor.ret = "filt" /\ Receive("filt")

NextCompact ==
    \/ CompactAssign
    \/ CompactReturn
    \/ CompactSrcSend
    \/ CompactSrcClose
    \/ FilterRange
    \/ FilterCall
    \/ FilterSend
    \/ FilterClose
    \/ ConsumeMade
    \/ ConsumeFilt
    \/ ReceiveBuffered("filt")
    \/ ReceiveClosed("filt")

\* The scheduler runs a goroutine that can run; the caller keeps receiving.
SpecCompact == InitCompact /\ [][NextCompact]_vars /\ WF_vars(NextCompact)

\* The distinct values of s in the order of their first occurrence.
RECURSIVE Distinct(_)
Distinct(s) ==
    IF s = <<>> THEN <<>>
    ELSE LET d == Distinct(SubSeq(s, 1, Len(s) - 1))
             e == s[Len(s)]
         IN  IF \E j \in 1..Len(d) : d[j] = e THEN d ELSE Append(d, e)

Delivered == IF gor.ret = "none" THEN <<>> ELSE rcv[gor.ret].got

CompactInOrder ==
    /\ Len(Delivered) <= Len(Distinct(feed))
    /\ Delivered = SubSeq(Distinct(feed), 1, Len(Delivered))

\* C23: the channel that Compact returns delivers the distinct values of src
\* once each, in the order of their first occurrence, and is closed in the
\* end: the caller receives exactly these values and then sees it closed.
C23_Compact ==
    /\ []CompactInOrder
    /\ <>(gor.ret # "none" /\ rcv[gor.ret].pc = "end" /\ Delivered = Distinct(feed))



(* ------------------ Popper (src/chans/chans.go): SpecPopper ------------- *)
\* pop := Popper(pred, src): pred holds of the values of the set gor.pred.
\* src has a goroutine that sends the values of feed on it and closes it.
\* The caller calls pop again and again; got are the values that the call
\* has received, out and done its variables.
InitPopper ==
    /\ SortOff /\ SearchOff /\ KeyOff /\ PdqOff /\ QueueOff
    /\ feed \in ChInputs
    /\ \E n \in 0..ChMaxCap : ch = [c \in {"src"} |-> MakeChan(n)]
    /\ \E P \in SUBSET ChElem :
         gor = [i |-> 0, pc |-> "idle", calls |-> 0, pred |-> P,
                out |-> 0, done |-> FALSE, got |-> <<>>]
    /\ rcv = <<>>

\* pop(): var ( out T; done bool ); the loop starts.
PopperCall ==
    /\ gor.pc = "idle"
    /\ gor.calls < MaxCalls
    /\ gor' = [gor EXCEPT !.pc = "recv", !.calls = @ + 1, !.out = 0,
                          !.done = FALSE, !.got = <<>>]
    /\ UNCHANGED <<feed, ch, rcv, nonChanVars>>

\* out, done = <-src with the value v: the second result of a receive is
\* true for a value that was sent.
PopperTake(v) ==
    [gor EXCEPT !.pc = "test", !.out = v, !.done = TRUE, !.got = Append(@, v)]

\* The source sends its next value: to the receive of pop if src is
\* unbuffered, else into the buffer of src.
PopperSrcSend ==
    /\ gor.i < Len(feed)
    /\ IF ch["src"].cap = 0
       THEN /\ gor.pc = "recv"
            /\ gor' = [PopperTake(feed[gor.i + 1]) EXCEPT !.i = @ + 1]
            /\ UNCHANGED ch
       ELSE /\ Len(ch["src"].buf) < ch["src"].cap
            /\ ch' = [ch EXCEPT !["src"].buf = Append(@, feed[gor.i + 1])]
            /\ gor' = [gor EXCEPT !.i = @ + 1]
    /\ UNCHANGED <<feed, rcv, nonChanVars>>

PopperSrcClose ==
    /\ gor.i = Len(feed)
    /\ ~ch["src"].closed
    /\ ch' = [ch EXCEPT !["src"].closed = TRUE]
    /\ UNCHANGED <<feed, gor, rcv, nonChanVars>>

\* out, done = <-src: the first value of the buffer.
PopperReceive ==
    /\ gor.pc = "recv"
    /\ ch["src"].buf # <<>>
    /\ gor' = PopperTake(Head(ch["src"].buf))
    /\ ch' = [ch EXCEPT !["src"].buf = Tail(@)]
    /\ UNCHANGED <<feed, rcv, nonChanVars>>

\* out, done = <-src on the closed and empty channel: the zero value, false.
PopperReceiveClosed ==
    /\ gor.pc = "recv"
    /\ ch["src"].closed /\ ch["src"].buf = <<>>
    /\ gor' = [gor EXCEPT !.pc = "test", !.out = 0, !.done = FALSE]
    /\ UNCHANGED <<feed, ch, rcv, nonChanVars>>

\* if done { break }; if !pred(out) { continue }; break; return out
PopperTest ==
    /\ gor.pc = "test"
    /\ gor' = IF gor.done THEN [gor EXCEPT !.pc = "idle"]
              ELSE IF gor.out \notin gor.pred THEN [gor EXCEPT !.pc = "recv"]
              ELSE [gor EXCEPT !.pc = "idle"]
    /\ UNCHANGED <<feed, ch, rcv, nonChanVars>>

NextPopper ==
    \/ PopperCall
    \/ PopperSrcSend
    \/ PopperSrcClose
    \/ PopperReceive
    \/ PopperReceiveClosed
    \/ PopperTest

SpecPopper == InitPopper /\ [][NextPopper]_vars

\* C24: a call of the function that Popper(pred, src) returned, returning
\* while src is open, returns a value that it received from src and that
\* satisfies pred, and every value it received before that one does not
\* satisfy pred.
C24_Popper ==
    (gor.pc = "idle" /\ gor.calls > 0 /\ ~ch["src"].closed) =>
        /\ gor.got # <<>>
        /\ gor.out = gor.got[Len(gor.got)]
        /\ gor.out \in gor.pred
        /\ \A j \in 1..Len(gor.got) - 1 : gor.got[j] \notin gor.pred


(* -------- Reverse and Reversed (package slices): SpecReverse ----------- *)
\* for i, j := 0, len(slice)-1; j > 0; i, j = i+1, j-1 {
\*     slice[i], slice[j] = slice[j], slice[i] }
RECURSIVE ReverseLoop(_, _, _)
ReverseLoop(s, i, j) ==
    IF j > 0
    THEN ReverseLoop(Put(Put(s, i, At(s, j)), j, At(s, i)), i + 1, j - 1)
    ELSE s

\* Reverse a slice in place.
Reverse(s) == IF Len(s) > 1 THEN ReverseLoop(s, 0, Len(s) - 1) ELSE s

\* Reversed: out := Clone(slice); Reverse(out); return out.
Reversed(m, p) ==
    LET c == Clone(m, p)
    IN  [mem |-> Store(c.mem, c.ptr, Reverse(Deref(c.mem, c.ptr))), ptr |-> c.ptr]

\* The caller holds nil or a slice of up to MaxLen elements.
InitReverse ==
    /\ \/ x = Nil /\ mem = <<>>
       \/ x = 1 /\ \E s \in ShortInputs : mem = <<s>>
    /\ y = Nil
    /\ pre = Deref(mem, x)
    /\ call = NoCall
    /\ ret = NoRet
    /\ SearchOff /\ OthersOff

\* Reverse(x)
DoReverse ==
    /\ Idle
    /\ call' = [NoCall EXCEPT !.op = "Reverse"]
    /\ mem' = Store(mem, x, Reverse(X))
    /\ UNCHANGED <<x, y, pre, ret, searchVars, otherVars>>

\* y := Reversed(x)
DoReversed ==
    /\ Idle
    /\ call' = [NoCall EXCEPT !.op = "Reversed"]
    /\ LET r == Reversed(mem, x)
       IN  mem' = r.mem /\ y' = r.ptr
    /\ UNCHANGED <<x, pre, ret, searchVars, otherVars>>

\* y := Reversed(Reversed(x))
DoReversedTwice ==
    /\ Idle
    /\ call' = [NoCall EXCEPT !.op = "ReversedTwice"]
    /\ LET first == Reversed(mem, x)
           second == Reversed(first.mem, first.ptr)
       IN  mem' = second.mem /\ y' = second.ptr
    /\ UNCHANGED <<x, pre, ret, searchVars, otherVars>>

NextReverse ==
    \/ DoReverse
    \/ DoReversed
    \/ DoReversedTwice

SpecReverse == InitReverse /\ [][NextReverse]_vars

\* r[i] = s[n-1-i] for every i of a slice s of length n.
IsReverseOf(r, s) ==
    /\ Len(r) = Len(s)
    /\ \A i \in 0..Len(s) - 1 : At(r, i) = At(s, Len(s) - 1 - i)

\* C25: Reversed(s) returns a new slice with r[i] = s[n-1-i] for every i
\* and leaves s as it is; Reverse(s) puts s in that order in place; and
\* Reversed(Reversed(s)) has the length and the elements of s.
C25_Reverse ==
    /\ call.op = "Reversed" =>
          /\ IsReverseOf(Deref(mem, y), pre)
          /\ X = pre
          /\ (x # Nil => y # x)
    /\ call.op = "Reverse" => IsReverseOf(X, pre)
    /\ call.op = "ReversedTwice" => (Deref(mem, y) = pre /\ X = pre)


(* ----------------- Context (src/chans/chans.go): SpecContext ------------ *)
\* Context(ctx, src): out := make(chan T, cap(src)) and a goroutine in its
\* select. src has a goroutine that sends the values of feed on it and
\* closes it; ctx is not done yet. late counts the values that the goroutine
\* received from src when ctx was done, and then sent on out.
InitContext ==
    /\ SortOff /\ SearchOff /\ KeyOff /\ PdqOff /\ QueueOff
    /\ feed \in ChInputs
    /\ \E n \in 0..ChMaxCap : ch = [c \in {"src", "out"} |-> MakeChan(n)]
    /\ gor = [i |-> 0, ctx |-> FALSE, pc |-> "select", v |-> 0,
              after |-> FALSE, late |-> 0]
    /\ rcv = [c \in {"out"} |-> NewReceiver]

\* The owner of ctx cancels it, or its deadline passes.
ContextCancel ==
    /\ ~gor.ctx
    /\ gor' = [gor EXCEPT !.ctx = TRUE]
    /\ UNCHANGED <<feed, ch, rcv, nonChanVars>>

\* case v, open := <-src with the value v; open is true.
ContextTake(v) == [gor EXCEPT !.pc = "send", !.v = v, !.after = gor.ctx]

\* The source sends its next value: to the select of Context if src is
\* unbuffered, else into the buffer of src.
ContextSrcSend ==
    /\ gor.i < Len(feed)
    /\ IF ch["src"].cap = 0
       THEN /\ gor.pc = "select"
            /\ gor' = [ContextTake(feed[gor.i + 1]) EXCEPT !.i = @ + 1]
            /\ UNCHANGED ch
       ELSE /\ Len(ch["src"].buf) < ch["src"].cap
            /\ ch' = [ch EXCEPT !["src"].buf = Append(@, feed[gor.i + 1])]
            /\ gor' = [gor EXCEPT !.i = @ + 1]
    /\ UNCHANGED <<feed, rcv, nonChanVars>>

ContextSrcClose ==
    /\ gor.i = Len(feed)
    /\ ~ch["src"].closed
    /\ ch' = [ch EXCEPT !["src"].closed = TRUE]
    /\ UNCHANGED <<feed, gor, rcv, nonChanVars>>

\* case <-ctx.Done(): return, and the deferred close(out). A select with
\* several cases ready takes any one of them.
ContextDone ==
    /\ gor.pc = "select"
    /\ gor.ctx
    /\ gor' = [gor EXCEPT !.pc = "done"]
    /\ ch' = [ch EXCEPT !["out"].closed = TRUE]
    /\ UNCHANGED <<feed, rcv, nonChanVars>>

\* case v, open := <-src: the first value of the buffer of src.
ContextReceive ==
    /\ gor.pc = "select"
    /\ ch["src"].buf # <<>>
    /\ gor' = ContextTake(Head(ch["src"].buf))
    /\ ch' = [ch EXCEPT !["src"].buf = Tail(@)]
    /\ UNCHANGED <<feed, rcv, nonChanVars>>

\* case v, open := <-src on the closed and empty src: if !open { return },
\* and the deferred close(out).
ContextClosed ==
    /\ gor.pc = "select"
    /\ ch["src"].closed /\ ch["src"].buf = <<>>
    /\ gor' = [gor EXCEPT !.pc = "done"]
    /\ ch' = [ch EXCEPT !["out"].closed = TRUE]
    /\ UNCHANGED <<feed, rcv, nonChanVars>>

\* out <- v: outside the select, it waits for the consumer alone.
ContextSend ==
    /\ gor.pc = "send"
    /\ Send("out", gor.v)
    /\ gor' = [gor EXCEPT !.pc = "select",
                          !.late = IF gor.after THEN 1 ELSE @]
    /\ UNCHANGED <<feed, nonChanVars>>

ContextStep ==
    \/ ContextDone
    \/ ContextReceive
    \/ ContextClosed
    \/ ContextSend

NextContext ==
    \/ ContextCancel
    \/ ContextSrcSend
    \/ ContextSrcClose
    \/ ContextDone
    \/ ContextReceive
    \/ ContextClosed
    \/ ContextSend
    \/ Receive("out")
    \/ ReceiveBuffered("out")
    \/ ReceiveClosed("out")

\* The scheduler runs the goroutine of Context when it can run. The
\* consumer of out, the source and the owner of ctx do what they like.
SpecContext == InitContext /\ [][NextContext]_vars /\ WF_vars(ContextStep)

\* C26: whatever the consumer of out does, once ctx is done or src is
\* closed the channel out is closed in the end, and no value that was
\* received from src when ctx was done is sent on out.
C26_Context ==
    /\ (gor.ctx \/ ch["src"].closed) ~> ch["out"].closed
    /\ [](gor.late = 0)


(* ------ search and BinarySearch, step by step: SpecSearchLoop ---------- *)
\* A plausible slip: the middle is rounded up.
probeCeil(i, j) == (i + j + 1) \div 2

\* h := int(uint(i+j) >> 1)
probe(i, j) == (i + j) \div 2

\* A plausible slip: i = h in the false branch.
narrowStuck(i, j, h, fh) == IF ~fh THEN <<h, j>> ELSE <<i, h>>

\* if !f(h) { i = h + 1 } else { j = h }
narrow(i, j, h, fh) == IF ~fh THEN <<h + 1, j>> ELSE <<i, h>>

\* BinarySearch(target, space) on every slice of 0..MaxN elements, sorted or
\* not: search is called with len(space) and the predicate
\* space[i] >= target, and is at i, j := 0, n. read are the indices at which
\* the slice has been read, probes the number of calls of the predicate.
InitSearchLoop ==
    /\ \E n \in 0..MaxN : \E space \in [1..n -> {0, 1}] : mem = <<space>>
    /\ x = 1 /\ y = Nil
    /\ pre = X
    /\ \E target \in {0, 1} : call = [NoCall EXCEPT !.op = "BinarySearch", !.target = target]
    /\ ret = NoRet
    /\ sn = Len(X)
    /\ sf = [i \in 0..(Len(X) - 1) |-> OGe(At(X, i), call.target)]
    /\ sret = -1
    /\ sl = [pc |-> "loop", i |-> 0, j |-> Len(X), probes |-> 0, read |-> {}]
    /\ OthersOff

\* One iteration of for i < j: the predicate reads space[h], which panics
\* when h is out of range.
SearchProbe ==
    /\ sl.pc = "loop"
    /\ sl.i < sl.j
    /\ LET h == probe(sl.i, sl.j)
       IN  sl' = IF h \notin 0..(Len(X) - 1)
                 THEN [sl EXCEPT !.pc = "fault", !.read = @ \cup {h}]
                 ELSE LET ij == narrow(sl.i, sl.j, h, OGe(At(X, h), call.target))
                      IN  [sl EXCEPT !.i = ij[1], !.j = ij[2],
                                     !.probes = @ + 1, !.read = @ \cup {h}]
    /\ UNCHANGED <<sortVars, sn, sf, sret, otherVars>>

\* return i, and in BinarySearch:
\* if pos >= len(space) || space[pos] != target, which reads space[pos]
\* when pos < len(space).
SearchReturn ==
    /\ sl.pc = "loop"
    /\ ~(sl.i < sl.j)
    /\ sret' = sl.i
    /\ LET pos == sl.i
       IN  IF pos >= Len(X)
           THEN /\ ret' = [NoRet EXCEPT !.pos = pos, !.found = FALSE]
                /\ sl' = [sl EXCEPT !.pc = "done"]
           ELSE /\ sl' = IF pos \in 0..(Len(X) - 1)
                         THEN [sl EXCEPT !.pc = "done", !.read = @ \cup {pos}]
                         ELSE [sl EXCEPT !.pc = "fault", !.read = @ \cup {pos}]
                /\ ret' = IF pos \in 0..(Len(X) - 1)
                          THEN [NoRet EXCEPT !.pos = pos,
                                   !.found = ~ONe(At(X, pos), call.target)]
                          ELSE [NoRet EXCEPT !.out = Fault]
    /\ UNCHANGED <<mem, x, y, pre, call, sn, sf, otherVars>>

NextSearchLoop ==
    \/ SearchProbe
    \/ SearchReturn

\* The call runs on: nothing but the loop itself can keep it from its end.
SpecSearchLoop == InitSearchLoop /\ [][NextSearchLoop]_vars /\ WF_vars(NextSearchLoop)

\* C27: with a monotone predicate, at the start of every iteration of
\* search: 0 <= i <= j <= n, the predicate is false below i and true from j
\* on, and h = (i+j)/2 has i <= h < j; the predicate is called with an
\* index of 0..n-1 only and BinarySearch reads the slice in range only.
C27_SearchInvariant ==
    Monotone(sn, sf) =>
        /\ sl.pc # "fault"
        /\ sl.read \subseteq 0..(sn - 1)
        /\ 0 <= sl.i /\ sl.i <= sl.j /\ sl.j <= sn
        /\ \A k \in 0..(sl.i - 1) : ~sf[k]
        /\ \A k \in sl.j..(sn - 1) : sf[k]
        /\ sl.i < sl.j =>
              /\ sl.i <= probe(sl.i, sl.j)
              /\ probe(sl.i, sl.j) < sl.j

\* C27 happens: the loop is at its third iteration, inside the range.
C27_Witness ==
    /\ Monotone(sn, sf)
    /\ sl.pc = "loop" /\ sl.probes = 2
    /\ 0 < sl.i /\ sl.i < sl.j /\ sl.j < sn

\* C28: search ends for every n and every predicate: every iteration
\* shrinks j - i, the predicate is called at most bits.Len(n) times, the
\* index returned is in 0..n, and BinarySearch writes nothing to the slice.
C28_SearchEnds ==
    /\ [][sl'.probes # sl.probes => sl'.j - sl'.i < sl.j - sl.i]_vars
    /\ [](sl.probes <= bitsLen(sn))
    /\ [](sret # -1 => sret \in 0..sn)
    /\ [](X = pre)
    /\ <>(sl.pc = "done")

\* C28 happens: a predicate that is not monotone was called bits.Len(n)
\* times, n being 4 or more, and search returned.
C28_Witness ==
    /\ ~Monotone(sn, sf) /\ sn >= 4
    /\ sl.pc = "done" /\ sl.probes = bitsLen(sn)
    /\ sret \in 0..sn


(* -------------- k.Lt as an ordering: SpecKeyOrder ---------------------- *)
\* k.Lt is called on every pair of three elements.
InitKeyOrder ==
    /\ SortOff /\ SearchOff /\ PdqOff /\ ConcOff
    /\ \E id \in KeyIds, a, b, c \in Elem :
           kq = [k |-> id, a |-> a, b |-> b, c |-> c, done |-> FALSE, lt |-> <<>>]

DoKeyOrder ==
    /\ ~kq.done
    /\ kq' = [kq EXCEPT
                !.done = TRUE,
                !.lt = [p \in {kq.a, kq.b, kq.c} \X {kq.a, kq.b, kq.c} |->
                           KeyLt(KeyFn(kq.k), p[1], p[2])]]
    /\ UNCHANGED <<sortVars, searchVars, pdqVars, concVars>>

NextKeyOrder == DoKeyOrder

SpecKeyOrder == InitKeyOrder /\ [][NextKeyOrder]_vars

\* The keys of the three elements are values of a totally ordered type:
\* none is incomparable.
KeysOrdered == \A e \in {kq.a, kq.b, kq.c} : KeyFn(kq.k)[e] # NaN

\* Neither is less than the other by what k.Lt returned.
SameKey(u, v) == ~kq.lt[<<u, v>>] /\ ~kq.lt[<<v, u>>]

\* C29: for a key into a totally ordered type k.Lt is a strict weak
\* ordering: Lt(a,a) never holds, Lt(a,b) excludes Lt(b,a), Lt is
\* transitive, and having equal keys is transitive; so the less that
\* SortKey, SortedKey and SortStableKey hand to SortFunc and SortStableFunc
\* satisfies their precondition.
C29_KeyOrder ==
    (kq # <<>> /\ kq.done /\ KeysOrdered) =>
        LET S == {kq.a, kq.b, kq.c}
        IN  /\ \A u \in S : ~kq.lt[<<u, u>>]
            /\ \A u, v \in S : kq.lt[<<u, v>>] => ~kq.lt[<<v, u>>]
            /\ \A u, v, w \in S : kq.lt[<<u, v>>] /\ kq.lt[<<v, w>>] => kq.lt[<<u, w>>]
            /\ \A u, v, w \in S : SameKey(u, v) /\ SameKey(v, w) => SameKey(u, w)
            /\ StrictWeak(LtOf(KeyFn(kq.k)), S)

\* C29 happens: of three different elements two have the same key and the
\* third a greater one.
C29_Witness ==
    /\ kq # <<>> /\ kq.done /\ KeysOrdered /\ kq.k = "half"
    /\ kq.a # kq.b /\ kq.b # kq.c /\ kq.a # kq.c
    /\ SameKey(kq.a, kq.b) /\ kq.lt[<<kq.b, kq.c>>] /\ kq.lt[<<kq.a, kq.c>>]


(* ------- the locks of the Queue methods on two queues: SpecLocks -------- *)
LProcs == 1..LockProcs
LQueues == {"q", "p"}

\* The calls: a.Eq(b, eq), a.Pop(), a.Cast(fn), and a.Do(fn), which takes
\* and releases the read lock of a as Push, Map, Clone and String do.
LCalls ==
    [op : {"Eq"}, a : LQueues, b : LQueues]
        \cup [op : {"Pop", "Cast", "Do"}, a : LQueues, b : {"none"}]

\* A sync.RWMutex with the goroutines that hold it and the goroutines
\* blocked in Lock: a blocked Lock call excludes new readers from acquiring
\* the lock, and RLock does not know which goroutine holds a read lock.
NewRWMutex == [readers |-> [g \in LProcs |-> 0], writer |-> 0, pending |-> {}]
NoReaders(m) == \A g \in LProcs : m.readers[g] = 0
RLockReady(m) == m.writer = 0 /\ m.pending = {}
LockReady(m) == m.writer = 0 /\ NoReaders(m)

\* q := NewQueue(1), p := NewQueue(1); every goroutine is about to make one
\* call. The callback of Cast is the constant 0, that of Eq is ==.
InitLocks ==
    /\ SortOff /\ SearchOff /\ KeyOff /\ PdqOff /\ ChanOff
    /\ Buf = [a \in LQueues |-> <<1>>]
    /\ mu = [a \in LQueues |-> NewRWMutex]
    /\ proc \in [LProcs -> {[pc |-> "start", call |-> c, out |-> FALSE] : c \in LCalls}]
    /\ cells = <<>> /\ want = <<>> /\ calls = 0 /\ crashed = FALSE

LAt(g, ops, pc) == proc[g].call.op \in ops /\ proc[g].pc = pc

\* q.RLock() of Eq and Do.
CallRLock(g) ==
    /\ LAt(g, {"Eq", "Do"}, "start")
    /\ RLockReady(mu[proc[g].call.a])
    /\ mu' = [mu EXCEPT ![proc[g].call.a].readers[g] = @ + 1]
    /\ proc' = [proc EXCEPT ![g].pc = IF proc[g].call.op = "Eq" THEN "second" ELSE "body"]
    /\ UNCHANGED <<Buf, cells, want, calls, crashed, nonQueueVars>>

\* p.RLock() of Eq.
EqRLockOther(g) ==
    /\ LAt(g, {"Eq"}, "second")
    /\ RLockReady(mu[proc[g].call.b])
    /\ mu' = [mu EXCEPT ![proc[g].call.b].readers[g] = @ + 1]
    /\ proc' = [proc EXCEPT ![g].pc = "body"]
    /\ UNCHANGED <<Buf, cells, want, calls, crashed, nonQueueVars>>

\* The body of Eq, and its deferred p.RUnlock() and q.RUnlock().
EqReturn(g) ==
    /\ LAt(g, {"Eq"}, "body")
    /\ proc' = [proc EXCEPT ![g].pc = "done",
                            ![g].out = (Buf[proc[g].call.a] = Buf[proc[g].call.b])]
    /\ mu' = [m \in LQueues |->
                [mu[m] EXCEPT !.readers[g] =
                    @ - (IF m = proc[g].call.a THEN 1 ELSE 0)
                      - (IF m = proc[g].call.b THEN 1 ELSE 0)]]
    /\ UNCHANGED <<Buf, cells, want, calls, crashed, nonQueueVars>>

\* The body of Do, and its deferred q.RUnlock().
DoReturn(g) ==
    /\ LAt(g, {"Do"}, "body")
    /\ proc' = [proc EXCEPT ![g].pc = "done"]
    /\ mu' = [mu EXCEPT ![proc[g].call.a].readers[g] = @ - 1]
    /\ UNCHANGED <<Buf, cells, want, calls, crashed, nonQueueVars>>

\* q.Lock() of Pop and Cast is called: from now on it blocks new readers.
CallLock(g) ==
    /\ LAt(g, {"Pop", "Cast"}, "start")
    /\ mu' = [mu EXCEPT ![proc[g].call.a].pending = @ \cup {g}]
    /\ proc' = [proc EXCEPT ![g].pc = "blocked"]
    /\ UNCHANGED <<Buf, cells, want, calls, crashed, nonQueueVars>>

\* q.Lock() returns when no goroutine holds the lock.
LockReturns(g) ==
    /\ LAt(g, {"Pop", "Cast"}, "blocked")
    /\ LockReady(mu[proc[g].call.a])
    /\ mu' = [mu EXCEPT ![proc[g].call.a].pending = @ \ {g},
                        ![proc[g].call.a].writer = g]
    /\ proc' = [proc EXCEPT ![g].pc = "body"]
    /\ UNCHANGED <<Buf, cells, want, calls, crashed, nonQueueVars>>

\* The body of Pop, and its deferred q.Unlock().
PopReturn(g) ==
    /\ LAt(g, {"Pop"}, "body")
    /\ Buf' = [Buf EXCEPT ![proc[g].call.a] = IF @ = <<>> THEN @ ELSE Tail(@)]
    /\ mu' = [mu EXCEPT ![proc[g].call.a].writer = 0]
    /\ proc' = [proc EXCEPT ![g].pc = "done"]
    /\ UNCHANGED <<cells, want, calls, crashed, nonQueueVars>>

\* The body of Cast, and its deferred q.Unlock().
CastReturn(g) ==
    /\ LAt(g, {"Cast"}, "body")
    /\ Buf' = [Buf EXCEPT ![proc[g].call.a] = [i \in 1..Len(@) |-> 0]]
    /\ mu' = [mu EXCEPT ![proc[g].call.a].writer = 0]
    /\ proc' = [proc EXCEPT ![g].pc = "done"]
    /\ UNCHANGED <<cells, want, calls, crashed, nonQueueVars>>

NextLocks ==
    \E g \in LProcs :
        \/ CallRLock(g)
        \/ EqRLockOther(g)
        \/ EqReturn(g)
        \/ DoReturn(g)
        \/ CallLock(g)
        \/ LockReturns(g)
        \/ PopReturn(g)
        \/ CastReturn(g)

\* The scheduler runs a goroutine that can run.
SpecLocks == InitLocks /\ [][NextLocks]_vars /\ WF_vars(NextLocks)

\* C30: no call on the queues deadlocks: under every interleaving every
\* call returns in the end, q.Eq(q, eq) and q.Eq(p, eq) beside p.Eq(q, eq)
\* included, also while other goroutines wait for the write lock.
C30_NoDeadlock == <>(\A g \in LProcs : proc[g].pc = "done")
=============================================================================
